---- MODULE Spec2Model ----
(***************************************************************************)
(* Model of the stock screening pipeline (src/main.py: the segment fetch   *)
(* functions and their merge, screen_stocks, score_and_rank_stocks,        *)
(* get_technical_data, the technical loop and the report of __main__), of  *)
(* the end of a run in the analysis tab of src/app.py, of the multi-source *)
(* price consensus (src/price_sources.py: _validate_price,                 *)
(* get_price_consensus), of verify_user (src/database.py) and of           *)
(* RequestOptimizer.retry_with_backoff (src/performance.py).               *)
(*                                                                         *)
(* Numbers.  Python floats are modelled as scaled integers:                *)
(*   - ratios of a snapshot (revenueGrowth, earningsGrowth, returnOnEquity,*)
(*     profitMargins) and the ratio thresholds: units of 1e-5 (0.12 is     *)
(*     12000);                                                             *)
(*   - trailingPE, pegRatio and their thresholds, and prices: units of     *)
(*     1e-3 (PE 18 is 18000, a price of 0.01 is 10);                       *)
(*   - fields of a candidate (percentages, pe, peg, price), rounded by the *)
(*     code to 2 decimals: units of 1e-2 (12.5 % is 1250);                 *)
(*   - market capitalisation: millions of dollars;                         *)
(*   - a score: units of 1e-2 points once rounded, 1e-3 points before.     *)
(*   - closes of a price history and the prices of a technical profile:    *)
(*     cents.                                                              *)
(*   - times of verify_user: minutes; delays of retry_with_backoff: units  *)
(*     of 0.1 s.                                                           *)
(* Python's None is the empty sequence, a known value v is <<v>>.          *)
(***************************************************************************)
EXTENDS Integers, Sequences, FiniteSets, TLC

None == <<>>
Some(v) == <<v>>
IsNone(x) == x = <<>>
Val(x) == x[1]

\* dict.get(key, default) followed by the code's "if x is None: x = d".
OrElse(x, d) == IF IsNone(x) THEN d ELSE Val(x)

\* Python's round(): x / d rounded to the nearest integer, ties to even.
RoundDiv(x, d) ==
    LET q == x \div d
        r == x % d
    IN  IF 2 * r < d THEN q
        ELSE IF 2 * r > d THEN q + 1
        ELSE IF q % 2 = 0 THEN q ELSE q + 1

Min2(a, b) == IF a <= b THEN a ELSE b

(***************************************************************************)
(* Program constants (src/main.py:57-73).                                  *)
(***************************************************************************)
MIN_REVENUE_GROWTH == 12000
MIN_EARNINGS_GROWTH == 10000
MAX_PEG_RATIO == 2000
MIN_PEG_RATIO == 300
MAX_PE_RATIO == 30000
MIN_PE_RATIO == 10000
MIN_ROE == 15000
MIN_PROFIT_MARGIN == 8000
MIN_MARKET_CAP == 2000

\* The value the code substitutes for an absent trailingPE / pegRatio (999).
SENTINEL == 999000
\* The same value in a candidate's units (2 decimals).
SENTINEL_C == 99900

\* SCAN_LIMIT is 2000 and TOP_N is 20 in the source; the model scales both
\* down so that batches longer than the limits are reached.
SCAN_LIMIT == 3
TOP_N == 2

\* Longest ticker batch handed to screen_stocks.
MaxTickers == 4

VARIABLES
    tickers,        \* screen_stocks: the argument `tickers`
    th,             \* screen_stocks: the threshold parameters after defaulting
    i,              \* screen_stocks: position of the loop in tickers[:SCAN_LIMIT]
    info,           \* screen_stocks: `info` of the iteration just executed
    outcome,        \* screen_stocks: the exit the iteration just executed took
    candidates,     \* screen_stocks: `candidates` / __main__: `opportunities`
    top_stocks,     \* __main__: `top_opportunities`
    pc,             \* position of the pipeline
    symbol,         \* get_price_consensus: the argument `symbol`
    quoteSet,       \* the prices the providers quote during this call
    step,           \* get_price_consensus: the provider block to execute next
    quote,          \* get_price_consensus: `price, currency, source`
    prices,         \* get_price_consensus: `prices`, the accepted quotes
    sources_checked,\* get_price_consensus: `sources_checked`
    result,         \* get_price_consensus: the returned (price, currency, source)
    requested,      \* screen_stocks: the tickers whose fundamentals were requested
    delays,         \* screen_stocks: whether time.sleep ran after each request
    seg,            \* __main__: the segment fetch function to call next
    remote,         \* the answer the segment fetch just made got from Wikipedia
    lists,          \* __main__: the lists the fetch functions returned so far
    all_tickers,    \* __main__: `all_tickers`
    tpos,           \* __main__: position of the technical loop in top_opportunities
    df,             \* get_technical_data: the price history of the call just made
    fx,             \* get_technical_data: the EURUSD=X answers of the call just made
    profile,        \* get_technical_data: the value the call just made returned
    stocks_with_tech,   \* __main__: `stocks_with_tech`
    usd_to_eur,     \* get_technical_data: `usd_to_eur` of each call that returned a profile
    fx_requests,    \* number of EURUSD=X history requests made during the run
    caller,         \* the script running the pipeline: main.py or app.py
    authenticated,  \* app.py: st.session_state has an authenticated user_id
    messages,       \* what the run told the user once the stages were over
    emailed,        \* the `count` of the report e-mail handed to send_email
    final_results,  \* app.py: `final_results` / st.session_state['results']
    saved_analyses, \* database.py: the rows of the table saved_analyses
    backend,        \* database.py: is_using_supabase() ("supabase") or not ("sqlite")
    failed_login_attempts,  \* users.failed_login_attempts of the account
    locked_until,   \* users.locked_until of the account (minutes), None for NULL
    now,            \* datetime.now(), in minutes
    logins,         \* number of calls of verify_user made so far
    login,          \* what the last call of verify_user returned or raised
    max_retries,    \* retry_with_backoff: the argument `max_retries`
    backoff_factor, \* retry_with_backoff: the argument `backoff_factor`
    attempt,        \* retry_with_backoff: `attempt` of the next iteration
    delay,          \* retry_with_backoff: `delay`, in units of 0.1 s
    events,         \* retry_with_backoff: the calls of func and of time.sleep so far
    retry_result    \* retry_with_backoff: what the call returned or raised

screenVars == <<tickers, th, i, info, outcome, candidates, top_stocks, pc, requested, delays>>

priceVars == <<symbol, quoteSet, step, quote, prices, sources_checked, result>>

universeVars == <<seg, remote, lists, all_tickers>>

techVars == <<tpos, df, fx, profile, stocks_with_tech, usd_to_eur, fx_requests>>

runVars == <<caller, authenticated, messages, emailed, final_results, saved_analyses>>

\* The variables of the parts outside screening, prices, universe and
\* technical analysis.
authVars == <<backend, failed_login_attempts, locked_until, now, logins, login>>

retryVars == <<max_retries, backoff_factor, attempt, delay, events, retry_result>>

restVars == <<runVars, authVars, retryVars>>

vars == <<screenVars, priceVars, universeVars, techVars, restVars>>

(***************************************************************************)
(* screen_stocks                                                           *)
(***************************************************************************)
DefaultThresholds ==
    [min_revenue_growth |-> MIN_REVENUE_GROWTH,
     min_earnings_growth |-> MIN_EARNINGS_GROWTH,
     min_roe |-> MIN_ROE,
     min_profit_margin |-> MIN_PROFIT_MARGIN,
     min_pe_ratio |-> MIN_PE_RATIO,
     max_pe_ratio |-> MAX_PE_RATIO,
     min_peg_ratio |-> MIN_PEG_RATIO,
     max_peg_ratio |-> MAX_PEG_RATIO]

\* The local variables of one iteration after lines 402-415.
Locals(inf) ==
    [revenue_growth |-> OrElse(inf.revenueGrowth, 0),
     earnings_growth |-> OrElse(inf.earningsGrowth, 0),
     peg_ratio |-> OrElse(inf.pegRatio, SENTINEL),
     pe_ratio |-> OrElse(inf.trailingPE, SENTINEL),
     roe |-> OrElse(inf.returnOnEquity, 0),
     profit_margin |-> OrElse(inf.profitMargins, 0)]

has_revenue_growth(l, t) == l.revenue_growth >= t.min_revenue_growth

has_solid_fundamentals(l, t) ==
    /\ l.profit_margin >= t.min_profit_margin
    /\ l.roe >= t.min_roe

pe_ok(l, t) ==
    \/ l.pe_ratio = SENTINEL
    \/ (t.min_pe_ratio < l.pe_ratio /\ l.pe_ratio < t.max_pe_ratio)

peg_ok(l, t) ==
    \/ l.peg_ratio = SENTINEL
    \/ (t.min_peg_ratio < l.peg_ratio /\ l.peg_ratio < t.max_peg_ratio)

\* Mutant: the earnings growth must reach min_earnings_growth as well.
PassesFilterWithEarnings(l, t) ==
    /\ l.earnings_growth >= t.min_earnings_growth
    /\ \/ (has_revenue_growth(l, t)
           /\ (has_solid_fundamentals(l, t) \/ (pe_ok(l, t) /\ peg_ok(l, t))))
       \/ (10 * l.revenue_growth >= 7 * t.min_revenue_growth
           /\ has_solid_fundamentals(l, t)
           /\ pe_ok(l, t))

\* Lines 433-447: the if / elif / else of the filter.  The relaxed growth
\* test revenue_growth >= min_revenue_growth * 0.7 is compared exactly.
PassesFilter(l, t) ==
    \/ (has_revenue_growth(l, t)
        /\ (has_solid_fundamentals(l, t) \/ (pe_ok(l, t) /\ peg_ok(l, t))))
    \/ (10 * l.revenue_growth >= 7 * t.min_revenue_growth
        /\ has_solid_fundamentals(l, t)
        /\ pe_ok(l, t))

\* Mutant: an absent market cap read as 0 (info.get('marketCap', 0)).
SmallCapNoneAsZero(inf) == OrElse(inf.marketCap, 0) < MIN_MARKET_CAP

\* Line 477: the small-cap filter.
SmallCap(inf) ==
    /\ ~IsNone(inf.marketCap)
    /\ Val(inf.marketCap) < MIN_MARKET_CAP

\* Lines 483-512: the dict appended to `candidates` (the fields the later
\* stages read).  score = None stands for the key being absent.
Candidate(ticker, inf) ==
    LET l == Locals(inf) IN
    [symbol |-> ticker,
     price |-> RoundDiv(Val(inf.price), 10),
     revenue_growth |-> IF l.revenue_growth # 0
                        THEN RoundDiv(l.revenue_growth, 10) ELSE 0,
     earnings_growth |-> IF l.earnings_growth # 0
                         THEN RoundDiv(l.earnings_growth, 10) ELSE 0,
     peg |-> IF l.peg_ratio < SENTINEL
             THEN Some(RoundDiv(l.peg_ratio, 10)) ELSE None,
     pe |-> IF l.pe_ratio < SENTINEL
            THEN Some(RoundDiv(l.pe_ratio, 10)) ELSE None,
     roe |-> IF l.roe # 0 THEN RoundDiv(l.roe, 10) ELSE 0,
     profit_margin |-> IF l.profit_margin # 0
                       THEN RoundDiv(l.profit_margin, 10) ELSE 0,
     market_cap |-> inf.marketCap,
     score |-> None]

\* Mutant: the small-cap filter left out.
ExitNoSizeFloor(inf, t) ==
    IF inf.kind = "raise" THEN "error"
    ELSE IF inf.kind = "short" THEN "nodata"
    ELSE IF IsNone(inf.price) \/ Val(inf.price) = 0 THEN "noprice"
    ELSE IF ~PassesFilter(Locals(inf), t) THEN "rejected"
    ELSE "accepted"

\* The exit one iteration of the loop takes for the response `inf` of
\* yf.Ticker(ticker).info (lines 385-520).
Exit(inf, t) ==
    IF inf.kind = "raise" THEN "error"
    ELSE IF inf.kind = "short" THEN "nodata"
    ELSE IF IsNone(inf.price) \/ Val(inf.price) = 0 THEN "noprice"
    ELSE IF ~PassesFilter(Locals(inf), t) THEN "rejected"
    ELSE IF SmallCap(inf) THEN "smallcap"
    ELSE "accepted"

\* Mutant: the whole list is scanned.
ScannedAll == tickers

\* tickers[:SCAN_LIMIT]
Scanned == SubSeq(tickers, 1, Min2(Len(tickers), SCAN_LIMIT))

\* Mutant: an exception ends the loop.
IterationBreaksOnError(inf) ==
    /\ info' = inf
    /\ outcome' = Exit(inf, th)
    /\ candidates' = IF Exit(inf, th) = "accepted"
                     THEN Append(candidates, Candidate(Scanned[i], inf))
                     ELSE candidates
    /\ i' = IF Exit(inf, th) = "error" THEN Len(Scanned) + 1 ELSE i + 1
    /\ requested' = Append(requested, Scanned[i])
    /\ delays' = Append(delays, Exit(inf, th) = "accepted")
    /\ UNCHANGED <<tickers, th, top_stocks, pc>>
    /\ UNCHANGED <<priceVars, universeVars, techVars, restVars>>

\* One iteration of the for loop of screen_stocks, `inf` being what the
\* fundamentals provider answers for the ticker.
Iteration(inf) ==
    /\ info' = inf
    /\ outcome' = Exit(inf, th)
    /\ candidates' = IF Exit(inf, th) = "accepted"
                     THEN Append(candidates, Candidate(Scanned[i], inf))
                     ELSE candidates
    /\ i' = i + 1
    /\ requested' = Append(requested, Scanned[i])
    /\ delays' = Append(delays, Exit(inf, th) = "accepted")
    /\ UNCHANGED <<tickers, th, top_stocks, pc>>
    /\ UNCHANGED <<priceVars, universeVars, techVars, restVars>>

\* Line 384: the loop runs while tickers[:SCAN_LIMIT] has a next ticker; the
\* provider answers with one of `infos`.
ScreenTicker(infos) ==
    /\ pc = "screen"
    /\ i <= Len(Scanned)
    /\ \E inf \in infos : Iteration(inf)

\* Line 522: return candidates (to __main__, line 1173).
ScreenReturn ==
    /\ pc = "screen"
    /\ i > Len(Scanned)
    /\ pc' = "score"
    /\ UNCHANGED <<tickers, th, i, info, outcome, candidates, top_stocks, requested, delays>>
    /\ UNCHANGED <<priceVars, universeVars, techVars, restVars>>

(***************************************************************************)
(* score_and_rank_stocks                                                   *)
(***************************************************************************)
\* Lines 532-541, in 1e-3 points.
RevenueScore(stock) ==
    LET g == stock.revenue_growth IN
    IF g >= 2000 THEN 40000
    ELSE IF g >= 1500 THEN 35000
    ELSE IF g >= 1200 THEN 30000
    ELSE 20 * g

\* Lines 543-552.
EarningsScore(stock) ==
    LET g == stock.earnings_growth IN
    IF g >= 2000 THEN 20000
    ELSE IF g >= 1500 THEN 17000
    ELSE IF g >= 1000 THEN 14000
    ELSE 10 * g

\* Lines 554-565.
FundamentalsScore(stock) ==
    LET r == stock.roe
        m == stock.profit_margin
    IN  IF r >= 2000 /\ m >= 1500 THEN 25000
        ELSE IF r >= 1500 /\ m >= 1000 THEN 20000
        ELSE IF r >= 1200 /\ m >= 800 THEN 15000
        ELSE 5 * (r + m)

\* Lines 567-589.
ValuationScore(stock) ==
    LET pe == OrElse(stock.pe, SENTINEL_C)
        peg == OrElse(stock.peg, SENTINEL_C)
    IN  IF pe # SENTINEL_C /\ peg # SENTINEL_C
        THEN IF pe < 2000 /\ peg < 150 THEN 15000
             ELSE IF pe < 2500 /\ peg < 200 THEN 12000
             ELSE IF pe < 3000 /\ peg < 250 THEN 8000
             ELSE 5000
        ELSE IF pe # SENTINEL_C /\ pe < 2500 THEN 10000
        ELSE 5000

\* Line 591: round(score, 2), in 1e-2 points.
Score(stock) ==
    RoundDiv(RevenueScore(stock) + EarningsScore(stock)
             + FundamentalsScore(stock) + ValuationScore(stock), 10)

\* Lines 529-592: every dict of the list gets its 'score' key, in place.
Scored(cands) == [k \in 1..Len(cands) |-> [cands[k] EXCEPT !.score = Some(Score(cands[k]))]]

\* Mutant: an unstable descending sort (x goes before its equals).
InsertDescUnstable(s, x) ==
    LET n == Cardinality({j \in 1..Len(s) : Val(s[j].score) > Val(x.score)})
    IN  SubSeq(s, 1, n) \o <<x>> \o SubSeq(s, n + 1, Len(s))

\* list.sort(key=score, reverse=True) is stable: x goes after every element
\* whose score is at least its own.
InsertDesc(s, x) ==
    LET n == Cardinality({j \in 1..Len(s) : Val(s[j].score) >= Val(x.score)})
    IN  SubSeq(s, 1, n) \o <<x>> \o SubSeq(s, n + 1, Len(s))

RECURSIVE SortDesc(_)
SortDesc(s) ==
    IF s = <<>> THEN <<>>
    ELSE InsertDesc(SortDesc(SubSeq(s, 1, Len(s) - 1)), s[Len(s)])

\* Line 596: scored_stocks[:TOP_N]
TopSlice(s) == SubSeq(s, 1, Min2(Len(s), TOP_N))

\* __main__ line 1181: top_opportunities = score_and_rank_stocks(opportunities).
ScoreAndRank ==
    /\ pc = "score"
    /\ candidates' = Scored(candidates)
    /\ top_stocks' = TopSlice(SortDesc(Scored(candidates)))
    /\ pc' = "done"
    /\ UNCHANGED <<tickers, th, i, info, outcome, requested, delays>>
    /\ UNCHANGED <<priceVars, universeVars, techVars, restVars>>

(***************************************************************************)
(* get_price_consensus (src/price_sources.py)                              *)
(***************************************************************************)
\* _validate_price defaults, in 1e-3: min_price=0.01, max_price=1000000.
MIN_PRICE == 10
MAX_PRICE == 1000000000

\* Most quotes one call accepts, most provider calls that raise.
MaxQuotes == 3
MaxErrors == 1

\* The provider blocks of get_price_consensus, in the order of the code.
Providers ==
    <<"Yahoo Finance", "Yahoo Finance API", "Zone Bourse", "Boursorama",
      "Investing.com", "MarketWatch", "Morningstar">>

\* The label appended to sources_checked when the provider call raises.
ErrorLabel(name) ==
    CASE name = "Yahoo Finance" -> "Yahoo Finance (erreur)"
      [] name = "Yahoo Finance API" -> "Yahoo Finance API (erreur)"
      [] name = "Zone Bourse" -> "Zone Bourse (erreur)"
      [] name = "Boursorama" -> "Boursorama (erreur)"
      [] name = "Investing.com" -> "Investing.com (erreur)"
      [] name = "MarketWatch" -> "MarketWatch (erreur)"
      [] name = "Morningstar" -> "Morningstar (erreur)"

ErrorLabels == {ErrorLabel(Providers[k]) : k \in 1..Len(Providers)}

\* The string tests the code makes on the symbol.
Symbols == {"AAPL", "MC.PA", "SAP.DE"}
InPA(sym) == sym = "MC.PA"              \* '.PA' in symbol
EndsPA(sym) == sym = "MC.PA"            \* symbol.endswith('.PA')
HasDot(sym) == sym \in {"MC.PA", "SAP.DE"}   \* '.' in symbol
EuroSuffix(sym) == sym \in {"MC.PA", "SAP.DE"}  \* '.PA', '.AS' or '.DE' in symbol
Short(sym) == TRUE                      \* len(symbol) <= 6

\* Lines 509 and 537: the blocks guarded by a test on the symbol.
Applies(name, sym) ==
    IF name \in {"Zone Bourse", "Boursorama"}
    THEN InPA(sym) \/ (Short(sym) /\ ~HasDot(sym))
    ELSE IF name = "MarketWatch"
    THEN ~HasDot(sym) \/ EndsPA(sym)
    ELSE TRUE

\* The currencies a provider can attach to a quote of the symbol
\* (lines 26-35, 141, 189, 243, 282, 375, 458-466).
ProviderCurrencies(name, sym) ==
    IF name \in {"Yahoo Finance", "Yahoo Finance API"}
    THEN IF EuroSuffix(sym) THEN {"EUR"} ELSE {"USD", "EUR"}
    ELSE IF name \in {"Zone Bourse", "Boursorama"} THEN {"EUR"}
    ELSE IF name = "MarketWatch" THEN {"USD"}
    ELSE IF EuroSuffix(sym) THEN {"EUR"} ELSE {"USD"}

NoQuote == [price |-> None, currency |-> None, source |-> None]

\* What a provider function can return: (None, None, None) or a quote.
Returns(name, sym, values) ==
    {NoQuote} \cup
    {[price |-> Some(v), currency |-> Some(c), source |-> Some(name)] :
        v \in values, c \in ProviderCurrencies(name, sym)}

\* Mutant: the upper bound not checked.
ValidateNoUpperBound(price) ==
    IF price = 0 \/ price <= 0 THEN FALSE
    ELSE IF price < MIN_PRICE THEN FALSE
    ELSE TRUE

\* Lines 474-480.
_validate_price(price) ==
    IF price = 0 \/ price <= 0 THEN FALSE
    ELSE IF price < MIN_PRICE \/ price > MAX_PRICE THEN FALSE
    ELSE TRUE

\* "if price and _validate_price(price, symbol)"
Accepted(q) ==
    /\ ~IsNone(q.price)
    /\ Val(q.price) # 0
    /\ _validate_price(Val(q.price))

ErrorCount == Cardinality({k \in 1..Len(sources_checked) : sources_checked[k] \in ErrorLabels})

\* One "try: ... except:" block whose provider call returns q.
ProviderReturns(name, q) ==
    /\ quote' = q
    /\ IF Accepted(q)
       THEN /\ Len(prices) < MaxQuotes
            /\ prices' = Append(prices, [p |-> Val(q.price), c |-> Val(q.currency), s |-> Val(q.source)])
            /\ sources_checked' = Append(sources_checked, Val(q.source))
       ELSE UNCHANGED <<prices, sources_checked>>

\* One "try: ... except:" block whose provider call raises.
ProviderRaises(name) ==
    /\ ErrorCount < MaxErrors
    /\ sources_checked' = Append(sources_checked, ErrorLabel(name))
    /\ UNCHANGED <<quote, prices>>

\* Lines 490-553: the next provider block, for a symbol it applies to.
QueryProvider ==
    /\ step \in 1..Len(Providers)
    /\ Applies(Providers[step], symbol)
    /\ \/ \E q \in Returns(Providers[step], symbol, quoteSet) : ProviderReturns(Providers[step], q)
       \/ ProviderRaises(Providers[step])
    /\ step' = step + 1
    /\ UNCHANGED <<symbol, quoteSet, result>>
    /\ UNCHANGED <<screenVars, universeVars, techVars, restVars>>

\* Lines 509 and 537: a block the symbol does not enter.
SkipProvider ==
    /\ step \in 1..Len(Providers)
    /\ ~Applies(Providers[step], symbol)
    /\ step' = step + 1
    /\ UNCHANGED <<symbol, quoteSet, quote, prices, sources_checked, result>>
    /\ UNCHANGED <<screenVars, universeVars, techVars, restVars>>

\* Lines 564-568: the keys of prices_by_currency, in insertion order.
RECURSIVE CurrencyKeys(_)
CurrencyKeys(ps) ==
    IF ps = <<>> THEN <<>>
    ELSE LET before == CurrencyKeys(SubSeq(ps, 1, Len(ps) - 1))
             c == ps[Len(ps)].c
         IN  IF \E k \in 1..Len(before) : before[k] = c THEN before
             ELSE Append(before, c)

\* prices_by_currency[c]
Group(ps, c) == SelectSeq(ps, LAMBDA x : x.c = c)

\* Mutant: the last maximum kept instead of the first.
RECURSIVE MaxKeyLast(_, _)
MaxKeyLast(ps, keys) ==
    IF Len(keys) = 1 THEN keys[1]
    ELSE LET best == MaxKeyLast(ps, SubSeq(keys, 1, Len(keys) - 1))
             k == keys[Len(keys)]
         IN  IF Len(Group(ps, k)) >= Len(Group(ps, best)) THEN k ELSE best

\* Line 572: max(keys, key=len of the group) keeps the first maximum.
RECURSIVE MaxKey(_, _)
MaxKey(ps, keys) ==
    IF Len(keys) = 1 THEN keys[1]
    ELSE LET best == MaxKey(ps, SubSeq(keys, 1, Len(keys) - 1))
             k == keys[Len(keys)]
         IN  IF Len(Group(ps, k)) > Len(Group(ps, best)) THEN k ELSE best

main_currency(ps) == MaxKey(ps, CurrencyKeys(ps))

\* sorted(values)[k - 1]: the k-th smallest value of a list.
KthSmallest(g, k) ==
    CHOOSE v \in {g[j].p : j \in 1..Len(g)} :
        /\ Cardinality({j \in 1..Len(g) : g[j].p < v}) < k
        /\ Cardinality({j \in 1..Len(g) : g[j].p <= v}) >= k

\* Line 577: sorted(...)[len(main_prices) // 2]
median_price(g) == KthSmallest(g, (Len(g) \div 2) + 1)

Abs(x) == IF x < 0 THEN -x ELSE x

\* Line 578: abs(p - median_price) / median_price < 0.5
NearMedian(x, med) == 2 * Abs(x.p - med) < med

\* Lines 576-580: main_prices after the outlier filter.
Filtered(g) ==
    IF Len(g) > 1
    THEN LET f == SelectSeq(g, LAMBDA x : NearMedian(x, median_price(g)))
         IN  IF f # <<>> THEN f ELSE g
    ELSE g

\* Sums of g[j].p \div n and of g[j].p % n: the mean of large prices is
\* computed without leaving the machine integers.
RECURSIVE SumDiv(_, _)
SumDiv(g, n) == IF g = <<>> THEN 0 ELSE (g[1].p \div n) + SumDiv(Tail(g), n)

RECURSIVE SumMod(_, _)
SumMod(g, n) == IF g = <<>> THEN 0 ELSE (g[1].p % n) + SumMod(Tail(g), n)

\* Line 583: sum(p) / len(main_prices), as the exact value whole + rem / den.
Mean(g) ==
    LET n == Len(g) IN
    [whole |-> SumDiv(g, n) + (SumMod(g, n) \div n),
     rem |-> SumMod(g, n) % n,
     den |-> n]

MaxP(g) == CHOOSE v \in {g[j].p : j \in 1..Len(g)} : \A j \in 1..Len(g) : g[j].p <= v
MinP(g) == CHOOSE v \in {g[j].p : j \in 1..Len(g)} : \A j \in 1..Len(g) : g[j].p >= v

\* Mutant: a spread of exactly 5 % already counts as incoherent.
IncoherentFrom5(g) == MaxP(g) > 0 /\ 20 * (MaxP(g) - MinP(g)) >= MaxP(g)

\* Line 588: max_price > 0 and (max_price - min_price) / max_price > 0.05.
\* For integers d and m, d / m > 1/20 exactly when d > m \div 20.
Incoherent(g) == MaxP(g) > 0 /\ (MaxP(g) - MinP(g)) > (MaxP(g) \div 20)

\* Line 591
YahooSources == {"Yahoo Finance", "Yahoo Finance API"}

\* Lines 590-592: the first accepted quote of a Yahoo source, if any.
YahooQuotes(ps) == SelectSeq(ps, LAMBDA x : x.s \in YahooSources)

\* A quote returned as it is.
Exact(p) == [whole |-> p, rem |-> 0, den |-> 1]

Returned(price, currency, source) ==
    [price |-> Some(price), currency |-> Some(currency), source |-> Some(source)]

\* Mutant: a single accepted quote treated like none ("len(prices) <= 1").
ConsensusNeedsTwo(ps) ==
    IF Len(ps) <= 1 THEN NoQuote
    ELSE LET cur == main_currency(ps)
             main_prices == Filtered(Group(ps, cur))
             yahoo == YahooQuotes(ps)
         IN  IF Incoherent(main_prices) /\ yahoo # <<>>
             THEN Returned(Exact(yahoo[1].p), yahoo[1].c, yahoo[1].s)
             ELSE Returned(Mean(main_prices), cur, "Consensus")

\* Lines 555-596: the value get_price_consensus returns for `prices`.
Consensus(ps) ==
    IF ps = <<>> THEN NoQuote
    ELSE IF Len(ps) = 1 THEN Returned(Exact(ps[1].p), ps[1].c, ps[1].s)
    ELSE LET cur == main_currency(ps)
             main_prices == Filtered(Group(ps, cur))
             yahoo == YahooQuotes(ps)
         IN  IF Incoherent(main_prices) /\ yahoo # <<>>
             THEN Returned(Exact(yahoo[1].p), yahoo[1].c, yahoo[1].s)
             ELSE Returned(Mean(main_prices), cur, "Consensus")

\* Lines 555-596: every provider block done, the function returns.
Reduce ==
    /\ step = Len(Providers) + 1
    /\ result' = Consensus(prices)
    /\ step' = step + 1
    /\ UNCHANGED <<symbol, quoteSet, quote, prices, sources_checked>>
    /\ UNCHANGED <<screenVars, universeVars, techVars, restVars>>

(***************************************************************************)
(* The ticker universe (src/main.py: get_*_tickers, __main__ 1143-1155).   *)
(***************************************************************************)
\* The fetch functions in the order __main__ calls them.
Segments ==
    <<"sp500", "nasdaq100", "dowjones", "eurostoxx", "emerging",
      "asia_pacific", "canada">>

\* The segments whose function reads a Wikipedia table.
RemoteSegments == {"sp500", "nasdaq100", "dowjones", "eurostoxx"}

\* The list a function returns without a usable table, cut to its first
\* two entries: the fallback lists of get_sp500_tickers, get_nasdaq100_tickers,
\* get_dowjones_tickers and get_eurostoxx_tickers, and the fixed lists of
\* get_emerging_markets_tickers, get_asia_pacific_tickers, get_canada_tickers.
Fallback(segment) ==
    CASE segment = "sp500" -> <<"AAPL", "MSFT">>
      [] segment = "nasdaq100" -> <<"AAPL", "MSFT">>
      [] segment = "dowjones" -> <<"AAPL", "MSFT">>
      [] segment = "eurostoxx" -> <<"MC.PA", "OR.PA">>
      [] segment = "emerging" -> <<"VALE", "PBR">>
      [] segment = "asia_pacific" -> <<"7203.T", "6758.T">>
      [] segment = "canada" -> <<"RY.TO", "TD.TO">>

\* get_eurostoxx_tickers keeps the table only with more than 50 tickers; the
\* model scales the 50 down.
EuroMinRows == 2

\* No request made yet.
NoTable == [kind |-> "none", column |-> FALSE, rows |-> <<>>]

\* x.replace('.', '-') on the symbols the model reads.
Dashed(x) == IF x = "BRK.B" THEN "BRK-B" ELSE x

\* One row of a table: the ticker cell and the suffix the row's country
\* text selects (lines 136-149; "" when no country matches).
Row(ticker, suffix) == [ticker |-> ticker, suffix |-> suffix]

\* f"{ticker}{suffix}" on the rows the model reads.
WithSuffix(row) ==
    CASE row.ticker = "MC" /\ row.suffix = ".PA" -> "MC.PA"
      [] row.ticker = "ASML" /\ row.suffix = ".AS" -> "ASML.AS"
      [] row.ticker = "SAP" /\ row.suffix = ".DE" -> "SAP.DE"
      [] OTHER -> row.ticker

\* "." in ticker
Dotted(ticker) == ticker \in {"MC.PA", "SAP.DE", "ASML.AS", "BRK.B"}

\* The tables Wikipedia can answer with: a US index table and a European one.
UsTables ==
    {<<>>, <<Row("AAPL", ""), Row("BRK.B", "")>>,
     <<Row("AAPL", ""), Row("aapl", ""), Row("AAPL", "")>>}

EuroTables ==
    {<<>>,
     <<Row("MC", ".PA"), Row("SAP.DE", ".DE"), Row("NESN", "")>>,
     <<Row("MC", ".PA"), Row("SAP.DE", ".DE"), Row("ASML", ".AS")>>,
     <<Row("MC", ".PA"), Row("nan", ""), Row("MC.PA", ".PA")>>}

\* What urlopen + pd.read_html produce: an exception (network, parse, no
\* table), or the first table of the page, with or without the column the
\* function reads.
Remotes(segment) ==
    {[kind |-> "raise", column |-> FALSE, rows |-> <<>>]} \cup
    [kind : {"table"}, column : BOOLEAN,
     rows : IF segment = "eurostoxx" THEN EuroTables ELSE UsTables]

\* Lines 94-97, 228-231, 254-257: df[column].apply(replace).tolist()
ColumnList(rows) == [k \in 1..Len(rows) |-> Dashed(rows[k].ticker)]

\* Lines 127-158: the loop over the rows of the European table.
RECURSIVE EuroList(_)
EuroList(rows) ==
    IF rows = <<>> THEN <<>>
    ELSE LET before == EuroList(SubSeq(rows, 1, Len(rows) - 1))
             row == rows[Len(rows)]
         IN  IF row.ticker = "nan" THEN before
             ELSE IF ~Dotted(row.ticker) /\ row.suffix # ""
                  THEN Append(before, WithSuffix(row))
             ELSE IF Dotted(row.ticker) THEN Append(before, row.ticker)
             ELSE before

\* Mutant: an empty column treated like a failure.
FetchOrFallback(segment, r) ==
    IF segment \notin RemoteSegments THEN Fallback(segment)
    ELSE IF r.kind = "raise" \/ ~r.column THEN Fallback(segment)
    ELSE IF segment = "eurostoxx"
         THEN IF Len(EuroList(r.rows)) > EuroMinRows
              THEN EuroList(r.rows) ELSE Fallback(segment)
    ELSE IF ColumnList(r.rows) = <<>> THEN Fallback(segment)
    ELSE ColumnList(r.rows)

\* The value get_<segment>_tickers returns when the remote answers r.
Fetch(segment, r) ==
    IF segment \notin RemoteSegments THEN Fallback(segment)
    ELSE IF r.kind = "raise" \/ ~r.column THEN Fallback(segment)
    ELSE IF segment = "eurostoxx"
         THEN IF Len(EuroList(r.rows)) > EuroMinRows
              THEN EuroList(r.rows) ELSE Fallback(segment)
    ELSE ColumnList(r.rows)

\* __main__ lines 1143-1149: the next fetch function is called.
FetchSegment ==
    /\ seg \in 1..Len(Segments)
    /\ \E r \in IF Segments[seg] \in RemoteSegments
                THEN Remotes(Segments[seg]) ELSE {NoTable} :
          /\ remote' = r
          /\ lists' = Append(lists, Fetch(Segments[seg], r))
    /\ seg' = seg + 1
    /\ UNCHANGED all_tickers
    /\ UNCHANGED <<screenVars, priceVars, techVars, restVars>>

\* us_tickers + nasdaq_tickers + ... + canada_tickers
RECURSIVE Concat(_)
Concat(ls) == IF ls = <<>> THEN <<>> ELSE ls[1] \o Concat(Tail(ls))

\* The distinct elements of a list, in the order of their first occurrence.
RECURSIVE Distinct(_)
Distinct(s) ==
    IF s = <<>> THEN <<>>
    ELSE LET before == Distinct(SubSeq(s, 1, Len(s) - 1))
             x == s[Len(s)]
         IN  IF \E k \in 1..Len(before) : before[k] = x THEN before
             ELSE Append(before, x)

Reverse(s) == [k \in 1..Len(s) |-> s[Len(s) + 1 - k]]

\* The order in which a set of strings is iterated depends on the hashes of
\* the process; the model draws it from two orders.
HashOrders == {"first", "last"}

\* Mutant: the lists concatenated without going through a set.
UniverseWithDuplicates(ls, order) ==
    IF order = "first" THEN Concat(ls) ELSE Reverse(Concat(ls))

\* Lines 1152-1155: list(set(us_tickers + ... + canada_tickers))
Universe(ls, order) ==
    IF order = "first" THEN Distinct(Concat(ls)) ELSE Reverse(Distinct(Concat(ls)))

\* __main__ lines 1152-1155: the lists are merged.
Aggregate ==
    /\ seg = Len(Segments) + 1
    /\ \E order \in HashOrders : all_tickers' = Universe(lists, order)
    /\ seg' = seg + 1
    /\ UNCHANGED <<remote, lists>>
    /\ UNCHANGED <<screenVars, priceVars, techVars, restVars>>

(***************************************************************************)
(* get_technical_data (src/main.py:601-765) and the loop of __main__       *)
(* (lines 1186-1192).                                                      *)
(*                                                                         *)
(* A price history (the Close column after ffill / bfill) is a sequence of *)
(* runs [v, n]: n consecutive daily closes of v cents.  Prices of a        *)
(* profile are in cents (the code rounds them to 2 decimals); the RSI is   *)
(* in 1e-2 points.  Volatility, the 1/3/6-month changes and the volume     *)
(* ratio are left out: they do not enter any other field.                  *)
(***************************************************************************)
\* Rows yf.download must return for an analysis, and the windows of the
\* indicators (lines 606, 626, 632, 638, 685-692).
MIN_ROWS == 200
RSI_PERIOD == 14
SMA_PERIOD == 200
SMA50_PERIOD == 50
YEAR_ROWS == 252
MONTHS3_ROWS == 60
MONTHS6_ROWS == 120

Run(v, n) == [v |-> v, n |-> n]

\* len(df)
RECURSIVE Rows(_)
Rows(h) == IF h = <<>> THEN 0 ELSE h[1].n + Rows(Tail(h))

Front(h) == SubSeq(h, 1, Len(h) - 1)

\* df['Close'].tail(n).sum()
RECURSIVE TailSum(_, _)
TailSum(h, n) ==
    IF n <= 0 \/ h = <<>> THEN 0
    ELSE LET r == h[Len(h)]
             m == Min2(r.n, n)
         IN  r.v * m + TailSum(Front(h), n - m)

\* The values of df['Close'].tail(n)
RECURSIVE TailValues(_, _)
TailValues(h, n) ==
    IF n <= 0 \/ h = <<>> THEN {}
    ELSE LET r == h[Len(h)]
         IN  {r.v} \cup TailValues(Front(h), n - Min2(r.n, n))

\* df['Close'].iloc[-k]
RECURSIVE Close(_, _)
Close(h, k) ==
    IF k <= h[Len(h)].n THEN h[Len(h)].v
    ELSE Close(Front(h), k - h[Len(h)].n)

SetMin(S) == CHOOSE v \in S : \A w \in S : v <= w
SetMax(S) == CHOOSE v \in S : \A w \in S : v >= w

\* Lines 38-40: the sums of the gains and of the losses over the last
\* RSI_PERIOD daily changes (k counts the changes still to add).
RECURSIVE Gains(_, _)
Gains(h, k) ==
    IF k = 0 THEN 0
    ELSE LET delta == Close(h, k) - Close(h, k + 1)
         IN  (IF delta > 0 THEN delta ELSE 0) + Gains(h, k - 1)

RECURSIVE Losses(_, _)
Losses(h, k) ==
    IF k = 0 THEN 0
    ELSE LET delta == Close(h, k) - Close(h, k + 1)
         IN  (IF delta < 0 THEN -delta ELSE 0) + Losses(h, k - 1)

\* Lines 41-42 and 629: round(rsi_series.iloc[-1], 2).  gain / loss is 0 / 0
\* (NaN, here None) without any change, infinite without a loss (RSI 100).
Rsi(h) ==
    LET g == Gains(h, RSI_PERIOD)
        l == Losses(h, RSI_PERIOD)
    IN  IF g = 0 /\ l = 0 THEN None
        ELSE IF l = 0 THEN Some(10000)
        ELSE Some(RoundDiv(10000 * g, g + l))

\* Line 627: rsi_series.isna().all(): no daily change in the whole history.
RsiAllNaN(h) == Cardinality(TailValues(h, Rows(h))) <= 1

\* Line 635: sma, as the sum of the last SMA_PERIOD closes (SMA_PERIOD times
\* the mean); line 639: the same for SMA50_PERIOD.
SmaSum(h) == TailSum(h, SMA_PERIOD)
Sma50Sum(h) == TailSum(h, SMA50_PERIOD)

\* Lines 685-692.
support_52w(h) == SetMin(TailValues(h, YEAR_ROWS))
resistance_52w(h) == SetMax(TailValues(h, YEAR_ROWS))
support_3m(h) == SetMin(TailValues(h, MONTHS3_ROWS))
support_6m(h) == SetMin(TailValues(h, MONTHS6_ROWS))

\* Line 642: current_price
current_price(h) == Close(h, 1)

\* Lines 641 and 670: price > sma, for the price of the candidate.
PriceAboveSma(stock, h) == SMA_PERIOD * stock.price > SmaSum(h)

\* Lines 695 and 708: current_price > sma
CurrentAboveSma(h) == SMA_PERIOD * current_price(h) > SmaSum(h)

\* An exact price num / den, in cents.
Frac(num, den) == [num |-> num, den |-> den]

\* round(float(x), 2)
Round2(q) == RoundDiv(q.num, q.den)

\* Lines 695-703: high_52w - range_52w * level, level in thousandths.
Fib(h, level) ==
    Frac(1000 * resistance_52w(h)
            - level * (resistance_52w(h) - support_52w(h)), 1000)

\* Lines 708-715: the two bounds of the buy zone.
buy_zone_low(h) ==
    IF CurrentAboveSma(h) THEN Frac(SmaSum(h) * 98, SMA_PERIOD * 100)
    ELSE Frac(support_6m(h) * 97, 100)

buy_zone_high(h) ==
    IF CurrentAboveSma(h) THEN Frac(SmaSum(h) * 102, SMA_PERIOD * 100)
    ELSE Frac(support_6m(h) * 103, 100)

\* The default of lines 720, 722, 724: 0.92.
DEFAULT_RATE == Frac(23, 25)

\* One answer of eur_usd.history(period="1d"): an exception, an empty frame,
\* or a frame whose last close is num / den dollars per euro.
FxRaise == [kind |-> "raise", num |-> 0, den |-> 1]
FxEmpty == [kind |-> "empty", num |-> 0, den |-> 1]
FxRate(num, den) == [kind |-> "rate", num |-> num, den |-> den]

\* Lines 718-724: usd_to_eur, for the answers to the request of the
\* emptiness test and, the frame not being empty, to the request of the
\* value.  An empty frame gives eur_rate = 0.92 and so usd_to_eur = 1 / 0.92.
UsdToEur(answers) ==
    IF answers[1].kind = "raise" THEN DEFAULT_RATE
    ELSE IF answers[1].kind = "empty"
         THEN Frac(DEFAULT_RATE.den, DEFAULT_RATE.num)
    ELSE IF answers[2].kind # "rate" THEN DEFAULT_RATE
    ELSE IF answers[2].num > 0 THEN Frac(answers[2].den, answers[2].num)
    ELSE DEFAULT_RATE

\* Lines 727-728: usd_to_eur_price
usd_to_eur_price(q, rate) ==
    IF q.num = 0 THEN None
    ELSE Some(RoundDiv(q.num * rate.num, q.den * rate.den))

TREND_UP == "HAUSSIER (Prix > SMA200)"
TREND_DOWN == "BAISSIER (Prix < SMA200)"

\* Lines 670-673: the trend, decided by the price of the candidate.
Trend(stock, h) == IF PriceAboveSma(stock, h) THEN TREND_UP ELSE TREND_DOWN

\* Lines 676-681
ShortTrend(h) ==
    IF Sma50Sum(h) # 0 /\ SMA50_PERIOD * current_price(h) > Sma50Sum(h)
    THEN "HAUSSIER"
    ELSE IF Sma50Sum(h) # 0 THEN "BAISSIER" ELSE "NEUTRE"

\* Mutant: the retracements computed in both regimes.
FibFieldAlways(h, level) == Some(Round2(Fib(h, level)))

\* Lines 695-705 and 749-750: a retracement is kept only above the SMA200.
FibField(h, level) ==
    IF CurrentAboveSma(h) /\ Fib(h, level).num # 0
    THEN Some(Round2(Fib(h, level))) ELSE None

\* Lines 758-761: the euro value of a retracement, when there is one.
FibEur(h, level, rate) ==
    IF IsNone(FibField(h, level)) THEN None
    ELSE usd_to_eur_price(Fib(h, level), rate)

\* Lines 731-761: the keys get_technical_data writes into the candidate.
TechFields(stock, h, rate) ==
    [rsi |-> Rsi(h),
     sma200 |-> Round2(Frac(SmaSum(h), SMA_PERIOD)),
     sma50 |-> IF Sma50Sum(h) # 0
               THEN Some(Round2(Frac(Sma50Sum(h), SMA50_PERIOD))) ELSE None,
     trend |-> Trend(stock, h),
     short_trend |-> ShortTrend(h),
     current_price |-> current_price(h),
     support_52w |-> support_52w(h),
     support_6m |-> support_6m(h),
     resistance_52w |-> resistance_52w(h),
     buy_zone_low |-> Round2(buy_zone_low(h)),
     buy_zone_high |-> Round2(buy_zone_high(h)),
     fib_382 |-> FibField(h, 382),
     fib_618 |-> FibField(h, 618),
     current_price_eur |-> usd_to_eur_price(Frac(current_price(h), 1), rate),
     buy_zone_low_eur |-> usd_to_eur_price(buy_zone_low(h), rate),
     buy_zone_high_eur |-> usd_to_eur_price(buy_zone_high(h), rate),
     support_6m_eur |-> usd_to_eur_price(Frac(support_6m(h), 1), rate),
     sma200_eur |-> usd_to_eur_price(Frac(SmaSum(h), SMA_PERIOD), rate),
     fib_382_eur |-> FibEur(h, 382, rate),
     fib_618_eur |-> FibEur(h, 618, rate)]

\* What yf.download answers: an exception, a frame without a Close column,
\* a frame whose closes are all NaN, or a frame of closes (empty or not).
FrameRaise == [kind |-> "raise", close |-> <<>>]
FrameNoClose == [kind |-> "noclose", close |-> <<Run(1000, MIN_ROWS)>>]
FrameNaN == [kind |-> "nan", close |-> <<Run(0, MIN_ROWS)>>]
Frame(h) == [kind |-> "frame", close |-> h]

\* Mutant: six months of rows are enough.
UsableFromSixMonths(d) ==
    /\ d.kind = "frame"
    /\ Rows(d.close) >= MONTHS6_ROWS
    /\ ~RsiAllNaN(d.close)

\* Lines 606-628: the answer gets past every early "return None".
Usable(d) ==
    /\ d.kind = "frame"
    /\ Rows(d.close) >= MIN_ROWS
    /\ ~RsiAllNaN(d.close)

\* Lines 629-646: the RSI is written into the candidate, then tested.
ReachesFx(d) == Usable(d) /\ ~IsNone(Rsi(d.close))

\* get_technical_data(candidate): the value returned (ret) and the candidate
\* dict after the call (stock), for the answers d of yf.download and
\* `answers` of EURUSD=X.
get_technical_data(stock, d, answers) ==
    IF ~Usable(d) THEN [ret |-> None, stock |-> stock]
    ELSE IF IsNone(Rsi(d.close))
         THEN [ret |-> None, stock |-> [rsi |-> None] @@ stock]
    ELSE LET full == TechFields(stock, d.close, UsdToEur(answers)) @@ stock
         IN  [ret |-> Some(full), stock |-> full]

\* The dict objects of top_opportunities are those of opportunities: a key
\* written through one list is seen through the other.
SameDict(cands, old, new) ==
    [k \in 1..Len(cands) |-> IF cands[k] = old THEN new ELSE cands[k]]

\* __main__ lines 1189-1192: one iteration of the technical loop, yf.download
\* answering one of `frames` and EURUSD=X one of `answerSeqs`.
AnalyzeStock(frames, answerSeqs) ==
    /\ pc = "technical"
    /\ tpos \in 1..Len(top_stocks)
    /\ \E d \in frames :
         \E answers \in IF ReachesFx(d) THEN answerSeqs ELSE {<<>>} :
          \E r \in {get_technical_data(top_stocks[tpos], d, answers)} :
            /\ df' = d
            /\ fx' = answers
            /\ fx_requests' = fx_requests + Len(answers)
            /\ profile' = r.ret
            /\ top_stocks' = [top_stocks EXCEPT ![tpos] = r.stock]
            /\ candidates' = SameDict(candidates, top_stocks[tpos], r.stock)
            /\ stocks_with_tech' = IF IsNone(r.ret) THEN stocks_with_tech
                                   ELSE Append(stocks_with_tech, Val(r.ret))
            /\ usd_to_eur' = IF IsNone(r.ret) THEN usd_to_eur
                             ELSE Append(usd_to_eur, UsdToEur(answers))
    /\ tpos' = tpos + 1
    /\ UNCHANGED <<tickers, th, i, info, outcome, pc, requested, delays>>
    /\ UNCHANGED <<priceVars, universeVars, restVars>>

\* __main__ line 1194: the loop is over.
TechnicalDone ==
    /\ pc = "technical"
    /\ tpos = Len(top_stocks) + 1
    /\ pc' = "report"
    /\ UNCHANGED <<tickers, th, i, info, outcome, candidates, top_stocks, requested, delays>>
    /\ UNCHANGED <<priceVars, universeVars, techVars, restVars>>

(***************************************************************************)
(* The end of a run: __main__ of src/main.py and the analysis tab of       *)
(* src/app.py.                                                             *)
(***************************************************************************)
\* What the run tells the user once the stages are over.
NO_OPPORTUNITY == "Aucune opportunité trouvée avec ces critères"
NO_EMAIL == "Aucune opportunité trouvée, aucun email envoyé"
ANALYSIS_DONE == "ANALYSE TERMINÉE !"
ANALYSIS_SUCCESS == "Analyse terminée ! actions analysées avec succès."

\* app.py lines 567-573: no opportunity, st.warning and st.stop().
NoOpportunity ==
    /\ pc = "score"
    /\ caller = "app"
    /\ candidates = <<>>
    /\ messages' = Append(messages, NO_OPPORTUNITY)
    /\ pc' = "stopped"
    /\ UNCHANGED <<tickers, th, i, info, outcome, candidates, top_stocks, requested, delays>>
    /\ UNCHANGED <<caller, authenticated, emailed, final_results, saved_analyses>>
    /\ UNCHANGED <<priceVars, universeVars, techVars, authVars, retryVars>>

\* main.py line 1181 (always) and app.py line 578 (after the test of line 567).
RankOpportunities ==
    /\ caller = "main" \/ candidates # <<>>
    /\ ScoreAndRank

\* main.py line 1188, app.py line 583: stocks_with_tech = [] and the loop
\* over the ranked stocks begins.
StartTechnical ==
    /\ pc = "done"
    /\ pc' = "technical"
    /\ tpos' = 1
    /\ stocks_with_tech' = <<>>
    /\ UNCHANGED <<tickers, th, i, info, outcome, candidates, top_stocks, requested, delays>>
    /\ UNCHANGED <<df, fx, profile, usd_to_eur, fx_requests>>
    /\ UNCHANGED <<priceVars, universeVars, restVars>>

\* main.py lines 1196-1299: the report is built and printed, the e-mail is
\* sent when a stock is left (the value send_email returns is not read).
ReportMain ==
    /\ pc = "report"
    /\ caller = "main"
    /\ emailed' = IF Len(stocks_with_tech) > 0
                  THEN Some(Len(stocks_with_tech)) ELSE None
    /\ messages' = messages \o <<ANALYSIS_DONE>> \o
                   (IF Len(stocks_with_tech) > 0 THEN <<>> ELSE <<NO_EMAIL>>)
    /\ pc' = "end"
    /\ UNCHANGED <<tickers, th, i, info, outcome, candidates, top_stocks, requested, delays>>
    /\ UNCHANGED <<caller, authenticated, final_results, saved_analyses>>
    /\ UNCHANGED <<priceVars, universeVars, techVars, authVars, retryVars>>

\* app.py lines 590-599: stock['avis_ia'] = ask_ai_opinion(stock), written
\* into the dict the three lists share (the text itself is not modelled).
WithOpinion(s, analysed) ==
    [k \in 1..Len(s) |->
        IF \E j \in 1..Len(analysed) : analysed[j] = s[k]
        THEN [avis_ia |-> "avis"] @@ s[k] ELSE s[k]]

\* app.py lines 590-669: the AI opinions, the e-mail (whatever the number of
\* stocks left), st.success, the results kept in the session and, for an
\* authenticated user, saved by save_analysis (which catches its own
\* exceptions and may store nothing: `stored`).
ReportApp ==
    /\ pc = "report"
    /\ caller = "app"
    /\ stocks_with_tech' = WithOpinion(stocks_with_tech, stocks_with_tech)
    /\ top_stocks' = WithOpinion(top_stocks, stocks_with_tech)
    /\ candidates' = WithOpinion(candidates, stocks_with_tech)
    /\ final_results' = stocks_with_tech'
    /\ emailed' = Some(Len(stocks_with_tech))
    /\ messages' = Append(messages, ANALYSIS_SUCCESS)
    /\ \E stored \in BOOLEAN :
         saved_analyses' = IF authenticated /\ stored
                           THEN Append(saved_analyses, final_results')
                           ELSE saved_analyses
    /\ pc' = "end"
    /\ UNCHANGED <<tickers, th, i, info, outcome, requested, delays>>
    /\ UNCHANGED <<tpos, df, fx, profile, usd_to_eur, fx_requests>>
    /\ UNCHANGED <<caller, authenticated>>
    /\ UNCHANGED <<priceVars, universeVars, authVars, retryVars>>

(***************************************************************************)
(* verify_user (src/database.py), for one account.                         *)
(***************************************************************************)
\* Lines 257 and 316: the number of failures that locks the account; lines
\* 258 and 317: the minutes it stays locked.
MAX_ATTEMPTS == 5
LOCK_MINUTES == 30

\* Most calls of verify_user, last minute of the clock.
MaxLogins == 7
MaxClock == 60

\* Lines 235-238 and 291-294: locked_until is set and lies in the future.
Locked == ~IsNone(locked_until) /\ now < Val(locked_until)

Outcome(kind, remaining) == [kind |-> kind, remaining |-> remaining]

\* Lines 245-252 and 302-312: the password is right, the counter and the
\* lock are cleared and the user id is returned.
LoginSucceeds ==
    /\ failed_login_attempts' = 0
    /\ locked_until' = None
    /\ login' = Outcome("user_id", 0)

\* Lines 253-272 and 313-335: the password is wrong, the counter grows, the
\* fifth failure (and each one after it) locks the account, and the
\* exception tells which.
LoginFails ==
    /\ failed_login_attempts' = failed_login_attempts + 1
    /\ locked_until' = IF failed_login_attempts + 1 >= MAX_ATTEMPTS
                       THEN Some(now + LOCK_MINUTES) ELSE locked_until
    /\ login' = IF MAX_ATTEMPTS - (failed_login_attempts + 1) > 0
                THEN Outcome("incorrect", MAX_ATTEMPTS - (failed_login_attempts + 1))
                ELSE Outcome("blocked", 0)

\* Lines 296-299: on SQLite the connection is closed before the "Compte
\* bloqué" exception, which the bare `except: pass` swallows; the statement
\* executed next on the closed connection raises, and the handler of line
\* 336 returns None for an exception that says neither bloqué nor incorrect.
ClosedConnection ==
    /\ login' = Outcome("None", 0)
    /\ UNCHANGED <<failed_login_attempts, locked_until>>

\* Lines 228-272 and 288-335 for a user that exists: on Supabase the
\* exception of the lock test is swallowed and the password is verified as
\* for an account that is not locked.
VerifyKnownUser(right) ==
    IF Locked /\ backend = "sqlite" THEN ClosedConnection
    ELSE IF right THEN LoginSucceeds ELSE LoginFails

\* verify_user(username, password): `found` tells whether the username has
\* a row, `right` whether verify_password accepts the password.
verify_user ==
    /\ pc = "login"
    /\ logins < MaxLogins
    /\ logins' = logins + 1
    /\ \E found \in BOOLEAN, right \in BOOLEAN :
         IF found THEN VerifyKnownUser(right)
         ELSE /\ login' = Outcome("None", 0)
              /\ UNCHANGED <<failed_login_attempts, locked_until>>
    /\ UNCHANGED <<backend, now>>
    /\ UNCHANGED <<screenVars, priceVars, universeVars, techVars, runVars, retryVars>>

\* Time passes between two calls.
Tick ==
    /\ pc = "login"
    /\ \E d \in {10, LOCK_MINUTES} :
         /\ now + d <= MaxClock
         /\ now' = now + d
    /\ UNCHANGED <<backend, failed_login_attempts, locked_until, logins, login>>
    /\ UNCHANGED <<screenVars, priceVars, universeVars, techVars, runVars, retryVars>>

(***************************************************************************)
(* RequestOptimizer.retry_with_backoff (src/performance.py)                *)
(***************************************************************************)
\* Largest max_retries a caller passes.
MaxRetries == 3

\* What one call of func does: it returns a value or raises an exception.
FuncAnswers ==
    [kind : {"return"}, value : {"a", "b"}] \cup
    [kind : {"raise"}, value : {"TimeoutError", "ConnectionError"}]

\* The calls the function makes, in order.
Call(r) == [kind |-> "call", answer |-> r, slept |-> 0]
Sleep(d) == [kind |-> "sleep", answer |-> [kind |-> "none", value |-> "none"], slept |-> d]

Running == [kind |-> "running", value |-> "none"]

\* Mutant: time.sleep(delay) runs before the test of the last attempt.
AttemptSleepsFirst(r) ==
    IF r.kind = "return"
    THEN /\ events' = Append(events, Call(r))
         /\ retry_result' = [kind |-> "returned", value |-> r.value]
         /\ UNCHANGED <<attempt, delay>>
    ELSE IF attempt = max_retries - 1
    THEN /\ events' = events \o <<Call(r), Sleep(delay)>>
         /\ retry_result' = [kind |-> "raised", value |-> r.value]
         /\ UNCHANGED <<attempt, delay>>
    ELSE /\ events' = events \o <<Call(r), Sleep(delay)>>
         /\ delay' = delay * backoff_factor
         /\ attempt' = attempt + 1
         /\ UNCHANGED retry_result

\* Lines 181-188: one iteration of the loop, func answering r.
Attempt(r) ==
    IF r.kind = "return"
    THEN /\ events' = Append(events, Call(r))
         /\ retry_result' = [kind |-> "returned", value |-> r.value]
         /\ UNCHANGED <<attempt, delay>>
    ELSE IF attempt = max_retries - 1
    THEN /\ events' = Append(events, Call(r))
         /\ retry_result' = [kind |-> "raised", value |-> r.value]
         /\ UNCHANGED <<attempt, delay>>
    ELSE /\ events' = events \o <<Call(r), Sleep(delay)>>
         /\ delay' = delay * backoff_factor
         /\ attempt' = attempt + 1
         /\ UNCHANGED retry_result

\* Line 181: the loop has a next attempt.
TryCall ==
    /\ pc = "retry"
    /\ retry_result = Running
    /\ attempt < max_retries
    /\ \E r \in FuncAnswers : Attempt(r)
    /\ UNCHANGED <<max_retries, backoff_factor>>
    /\ UNCHANGED <<screenVars, priceVars, universeVars, techVars, runVars, authVars>>

\* Line 190: range(max_retries) is exhausted without a return or a raise,
\* which happens for max_retries <= 0 only: return None.
LoopExhausted ==
    /\ pc = "retry"
    /\ retry_result = Running
    /\ attempt >= max_retries
    /\ retry_result' = [kind |-> "returned", value |-> "None"]
    /\ UNCHANGED <<max_retries, backoff_factor, attempt, delay, events>>
    /\ UNCHANGED <<screenVars, priceVars, universeVars, techVars, runVars, authVars>>

(***************************************************************************)
(* Inputs: what the fundamentals provider can answer.                      *)
(***************************************************************************)
TickerNames == <<"AAPL", "MSFT", "MC.PA", "SAP.DE", "NVDA", "7203.T">>

NoInfo ==
    [kind |-> "none", price |-> None, revenueGrowth |-> None,
     earningsGrowth |-> None, pegRatio |-> None, trailingPE |-> None,
     returnOnEquity |-> None, profitMargins |-> None, marketCap |-> None]

\* yf.Ticker(ticker).info raises / answers fewer than 10 fields.
FailedInfos == {[NoInfo EXCEPT !.kind = k] : k \in {"raise", "short"}}

\* Every combination of the fundamentals around the thresholds.
FullInfos ==
    [kind : {"ok"},
     price : {Some(150000)},
     revenueGrowth : {None, Some(5000), Some(8400), Some(11996), Some(12000), Some(20000)},
     earningsGrowth : {None, Some(-90000), Some(12000), Some(25000)},
     pegRatio : {None, Some(1200), Some(2500), Some(SENTINEL)},
     trailingPE : {None, Some(10000), Some(18000), Some(30000), Some(SENTINEL)},
     returnOnEquity : {None, Some(15000), Some(16000), Some(500000)},
     profitMargins : {None, Some(8000), Some(10000)},
     marketCap : {None, Some(1999), Some(2000)}]

\* revenue_growth=0.20, profit_margin=0.10, roe=0.16, pe=18, peg=1.2
SolidInfo ==
    [kind |-> "ok", price |-> Some(150000), revenueGrowth |-> Some(20000),
     earningsGrowth |-> Some(12000), pegRatio |-> Some(1200),
     trailingPE |-> Some(18000), returnOnEquity |-> Some(16000),
     profitMargins |-> Some(10000), marketCap |-> None]

\* The same fundamentals without a usable price (lines 397-399).
PricelessInfos == {[SolidInfo EXCEPT !.price = p] : p \in {None, Some(0)}}

\* The same fundamentals in an answer of fewer than 10 fields (line 393).
ShortInfo == [SolidInfo EXCEPT !.kind = "short"]

AllInfos == FullInfos \cup PricelessInfos \cup FailedInfos \cup {ShortInfo}

\* A handful of answers for batches of several tickers.
BatchInfos ==
    {SolidInfo,
     [SolidInfo EXCEPT !.earningsGrowth = Some(25000)],
     [SolidInfo EXCEPT !.revenueGrowth = Some(5000)],
     [SolidInfo EXCEPT !.marketCap = Some(1999)]}
    \cup FailedInfos

\* Thresholds a caller passes (src/app.py hands over the user's values).
CustomThresholds ==
    [min_revenue_growth |-> 10000, min_earnings_growth |-> 5000,
     min_roe |-> 16000, min_profit_margin |-> 10000,
     min_pe_ratio |-> 5000, max_pe_ratio |-> 18000,
     min_peg_ratio |-> 1200, max_peg_ratio |-> 3000]

\* Thresholds the sliders of src/app.py allow although their bands are
\* empty: PER min 20 above PER max 15, PEG min 1.0 equal to PEG max 1.0.
InvalidThresholds ==
    [DefaultThresholds EXCEPT !.min_pe_ratio = 20000, !.max_pe_ratio = 15000,
                              !.min_peg_ratio = 1000, !.max_peg_ratio = 1000]

ThresholdConfigs == {DefaultThresholds, CustomThresholds, InvalidThresholds}

Batch(n) == [k \in 1..n |-> TickerNames[k]]

\* The variables of the stages a specification does not run.
IdlePrice ==
    /\ symbol = "AAPL"
    /\ quoteSet = {}
    /\ step = 0
    /\ quote = NoQuote
    /\ prices = <<>>
    /\ sources_checked = <<>>
    /\ result = NoQuote

IdleUniverse ==
    /\ seg = 0
    /\ remote = NoTable
    /\ lists = <<>>
    /\ all_tickers = <<>>

IdleTech ==
    /\ tpos = 0
    /\ df = FrameRaise
    /\ fx = <<>>
    /\ profile = None
    /\ stocks_with_tech = <<>>
    /\ usd_to_eur = <<>>
    /\ fx_requests = 0

IdleRun ==
    /\ caller = "main"
    /\ authenticated = FALSE
    /\ messages = <<>>
    /\ emailed = None
    /\ final_results = <<>>
    /\ saved_analyses = <<>>

IdleAuth ==
    /\ backend = "sqlite"
    /\ failed_login_attempts = 0
    /\ locked_until = None
    /\ now = 0
    /\ logins = 0
    /\ login = [kind |-> "none", remaining |-> 0]

IdleRetry ==
    /\ max_retries = 0
    /\ backoff_factor = 2
    /\ attempt = 0
    /\ delay = 0
    /\ events = <<>>
    /\ retry_result = [kind |-> "none", value |-> "none"]

IdleRest == IdleRun /\ IdleAuth /\ IdleRetry

IdleScreen ==
    /\ tickers = <<>>
    /\ th = DefaultThresholds
    /\ i = 1
    /\ info = NoInfo
    /\ outcome = "none"
    /\ candidates = <<>>
    /\ top_stocks = <<>>
    /\ requested = <<>>
    /\ delays = <<>>

InitScreen(batches, configs) ==
    /\ tickers \in batches
    /\ th \in configs
    /\ i = 1
    /\ info = NoInfo
    /\ outcome = "none"
    /\ candidates = <<>>
    /\ top_stocks = <<>>
    /\ pc = "screen"
    /\ requested = <<>>
    /\ delays = <<>>
    /\ IdlePrice
    /\ IdleUniverse
    /\ IdleTech
    /\ IdleRest

(***************************************************************************)
(* Inputs of the technical analysis.                                       *)
(***************************************************************************)
\* Most runs in a price history, most stocks in the technical loop.
MaxRuns == 3
MaxStocks == 2

\* Closes in cents, lengths of the runs: 60 + 139 rows are one row short of
\* MIN_ROWS, 139 + 139 + 1 rows are more than YEAR_ROWS.
CloseValues == {1000, 1500, 2000}
RunLengths == {1, 60, 139}

Runs == {Run(v, n) : v \in CloseValues, n \in RunLengths}

Histories == UNION {[1..k -> Runs] : k \in 0..MaxRuns}

AllFrames == {FrameRaise, FrameNoClose, FrameNaN} \cup {Frame(h) : h \in Histories}

\* A few answers for loops over several stocks: too few rows, the last close
\* above the SMA200, the last close below it.
LoopFrames ==
    {FrameRaise,
     Frame(<<Run(1000, 60), Run(1500, 139)>>),
     Frame(<<Run(1000, 139), Run(2000, 60), Run(1500, 1)>>),
     Frame(<<Run(1500, 139), Run(2000, 60), Run(1000, 1)>>)}

\* The EURUSD=X closes: 1.25 and a zero.
FxAnswers == {FxRaise, FxEmpty, FxRate(5, 4), FxRate(0, 1)}

\* The answers to the one or two requests of a call: the second request is
\* made only when the first frame is not empty.
FxAnswerSeqs ==
    {<<FxRaise>>, <<FxEmpty>>} \cup
    {<<a, b>> : a \in {FxRate(5, 4), FxRate(0, 1)}, b \in FxAnswers}

LoopFxAnswerSeqs ==
    {<<FxRaise>>, <<FxRate(5, 4), FxRate(5, 4)>>, <<FxRate(1, 1), FxRate(1, 1)>>}

\* The prices of the candidates handed to the technical loop (1e-3).
TechPrices == {10000, 17500}

\* top_opportunities: n ranked candidates with the solid fundamentals.
TechStock(k, price) ==
    LET c == Candidate(TickerNames[k], [SolidInfo EXCEPT !.price = Some(price)])
    IN  [c EXCEPT !.score = Some(Score(c))]

TechStocks(n) == [1..n -> TechPrices]

InitTechnical(sizes) ==
    /\ tickers = <<>>
    /\ th = DefaultThresholds
    /\ i = 1
    /\ info = NoInfo
    /\ outcome = "none"
    /\ requested = <<>>
    /\ delays = <<>>
    /\ \E n \in sizes : \E ps \in TechStocks(n) :
          /\ top_stocks = [k \in 1..n |-> TechStock(k, ps[k])]
          /\ candidates = [k \in 1..n |-> TechStock(k, ps[k])]
    /\ pc = "technical"
    /\ tpos = 1
    /\ df = FrameRaise
    /\ fx = <<>>
    /\ profile = None
    /\ stocks_with_tech = <<>>
    /\ usd_to_eur = <<>>
    /\ fx_requests = 0
    /\ IdlePrice
    /\ IdleUniverse
    /\ IdleRest

(***************************************************************************)
(* Spec: the pipeline over a batch of tickers, default thresholds.         *)
(***************************************************************************)
Init == InitScreen({Batch(n) : n \in 0..MaxTickers}, {DefaultThresholds})

Next ==
    \/ ScreenTicker(BatchInfos)
    \/ ScreenReturn
    \/ ScoreAndRank

Spec == Init /\ [][Next]_vars

(***************************************************************************)
(* SpecOne: one ticker, every combination of fundamentals and thresholds.  *)
(***************************************************************************)
InitOne == InitScreen({Batch(1)}, ThresholdConfigs)

NextOne ==
    \/ ScreenTicker(AllInfos)
    \/ ScreenReturn
    \/ ScoreAndRank

SpecOne == InitOne /\ [][NextOne]_vars

(***************************************************************************)
(* SpecPrice: one call of get_price_consensus.                             *)
(***************************************************************************)
\* The prices quoted during one call: close quotes, quotes with outliers,
\* quotes around the validation bounds.
QuoteSets ==
    {{99000, 100000, 101000},
     {94000, 95000, 100000},
     {100000, 150000, 250000},
     {0, 5, MIN_PRICE, MAX_PRICE, MAX_PRICE + 1}}

InitPrice ==
    /\ IdleScreen
    /\ IdleUniverse
    /\ IdleTech
    /\ IdleRest
    /\ pc = "price"
    /\ symbol \in Symbols
    /\ quoteSet \in QuoteSets
    /\ step = 1
    /\ quote = NoQuote
    /\ prices = <<>>
    /\ sources_checked = <<>>
    /\ result = NoQuote

NextPrice ==
    \/ QueryProvider
    \/ SkipProvider
    \/ Reduce

SpecPrice == InitPrice /\ [][NextPrice]_vars

(***************************************************************************)
(* SpecUniverse: the segment lists are fetched and merged.                 *)
(***************************************************************************)
InitUniverse ==
    /\ IdleScreen
    /\ IdlePrice
    /\ IdleTech
    /\ IdleRest
    /\ pc = "universe"
    /\ seg = 1
    /\ remote = NoTable
    /\ lists = <<>>
    /\ all_tickers = <<>>

NextUniverse ==
    \/ FetchSegment
    \/ Aggregate

SpecUniverse == InitUniverse /\ [][NextUniverse]_vars

(***************************************************************************)
(* SpecTech: the technical loop of __main__ over the ranked candidates.    *)
(***************************************************************************)
InitTech == InitTechnical(0..MaxStocks)

NextTech ==
    \/ AnalyzeStock(LoopFrames, LoopFxAnswerSeqs)
    \/ TechnicalDone

SpecTech == InitTech /\ [][NextTech]_vars

(***************************************************************************)
(* SpecTechOne: one candidate, every price history and FX answer.          *)
(***************************************************************************)
InitTechOne == InitTechnical({1})

NextTechOne ==
    \/ AnalyzeStock(AllFrames, FxAnswerSeqs)
    \/ TechnicalDone

SpecTechOne == InitTechOne /\ [][NextTechOne]_vars

(***************************************************************************)
(* SpecRun: a whole run, from the screening to the report, by either       *)
(* script.                                                                 *)
(***************************************************************************)
RunInfos ==
    {SolidInfo, [SolidInfo EXCEPT !.revenueGrowth = Some(5000)],
     [NoInfo EXCEPT !.kind = "raise"]}

RunFrames ==
    {FrameRaise, Frame(<<Run(1000, 139), Run(2000, 60), Run(1500, 1)>>)}

InitRun ==
    /\ tickers \in {Batch(n) : n \in 0..MaxStocks}
    /\ th = DefaultThresholds
    /\ i = 1
    /\ info = NoInfo
    /\ outcome = "none"
    /\ candidates = <<>>
    /\ top_stocks = <<>>
    /\ pc = "screen"
    /\ requested = <<>>
    /\ delays = <<>>
    /\ IdlePrice
    /\ IdleUniverse
    /\ IdleTech
    /\ caller \in {"main", "app"}
    /\ authenticated \in (IF caller = "app" THEN BOOLEAN ELSE {FALSE})
    /\ messages = <<>>
    /\ emailed = None
    /\ final_results = <<>>
    /\ saved_analyses = <<>>
    /\ IdleAuth
    /\ IdleRetry

NextRun ==
    \/ ScreenTicker(RunInfos)
    \/ ScreenReturn
    \/ NoOpportunity
    \/ RankOpportunities
    \/ StartTechnical
    \/ AnalyzeStock(RunFrames, {<<FxRaise>>})
    \/ TechnicalDone
    \/ ReportMain
    \/ ReportApp

SpecRun == InitRun /\ [][NextRun]_vars

(***************************************************************************)
(* SpecLogin: calls of verify_user for one account, on either backend.     *)
(***************************************************************************)
InitLogin ==
    /\ IdleScreen
    /\ IdlePrice
    /\ IdleUniverse
    /\ IdleTech
    /\ IdleRun
    /\ IdleRetry
    /\ pc = "login"
    /\ backend \in {"supabase", "sqlite"}
    /\ failed_login_attempts = 0
    /\ locked_until = None
    /\ now = 0
    /\ logins = 0
    /\ login = Outcome("none", 0)

NextLogin ==
    \/ verify_user
    \/ Tick

SpecLogin == InitLogin /\ [][NextLogin]_vars

(***************************************************************************)
(* SpecRetry: one call of retry_with_backoff.                              *)
(***************************************************************************)
\* initial_delay: 0.1 s and the default 0.5 s.
InitialDelays == {1, 5}

InitRetry ==
    /\ IdleScreen
    /\ IdlePrice
    /\ IdleUniverse
    /\ IdleTech
    /\ IdleRun
    /\ IdleAuth
    /\ pc = "retry"
    /\ max_retries \in 0..MaxRetries
    /\ backoff_factor \in {1, 2}
    /\ attempt = 0
    /\ delay \in InitialDelays
    /\ events = <<>>
    /\ retry_result = Running

NextRetry ==
    \/ TryCall
    \/ LoopExhausted

SpecRetry == InitRetry /\ [][NextRetry]_vars

(***************************************************************************)
(* Properties of screen_stocks and score_and_rank_stocks.                  *)
(***************************************************************************)
\* The iteration just executed reached the filter of lines 433-447.
Tested == outcome \in {"rejected", "smallcap", "accepted"}

\* The ticker of the iteration just executed is in the output.
InOutput == \E k \in 1..Len(candidates) : candidates[k].symbol = Scanned[i - 1]

\* The acceptance rule as documented: an absent PE / PEG passes, a known one
\* must lie strictly inside its band.
DocPeOk(inf, t) ==
    \/ IsNone(inf.trailingPE)
    \/ (t.min_pe_ratio < Val(inf.trailingPE) /\ Val(inf.trailingPE) < t.max_pe_ratio)

DocPegOk(inf, t) ==
    \/ IsNone(inf.pegRatio)
    \/ (t.min_peg_ratio < Val(inf.pegRatio) /\ Val(inf.pegRatio) < t.max_peg_ratio)

DocAccept(inf, t) ==
    LET rg == OrElse(inf.revenueGrowth, 0)
        pm == OrElse(inf.profitMargins, 0)
        re == OrElse(inf.returnOnEquity, 0)
    IN  \/ (rg >= t.min_revenue_growth
            /\ ((pm >= t.min_profit_margin /\ re >= t.min_roe)
                \/ (DocPeOk(inf, t) /\ DocPegOk(inf, t))))
        \/ (10 * rg >= 7 * t.min_revenue_growth
            /\ pm >= t.min_profit_margin /\ re >= t.min_roe
            /\ DocPeOk(inf, t))

\* C1: every snapshot that reaches the filter passes it exactly when the
\* documented rule accepts it, a known PE / PEG never counting as unknown.
C1_AcceptanceRule == Tested => ((outcome # "rejected") <=> DocAccept(info, th))

\* revenue_growth=0.20, profit_margin=0.10, roe=0.16, pe=18, peg=1.2
HasSolidValues(inf) ==
    /\ inf.revenueGrowth = Some(20000)
    /\ inf.profitMargins = Some(10000)
    /\ inf.returnOnEquity = Some(16000)
    /\ inf.trailingPE = Some(18000)
    /\ inf.pegRatio = Some(1200)

SolidProcessed ==
    /\ th = DefaultThresholds
    /\ outcome # "none"
    /\ HasSolidValues(info)

\* C2 as stated: with default thresholds a snapshot with the solid values is
\* in the output of screen_stocks whatever its other fields.
C2_SolidAlwaysOutput == SolidProcessed => InOutput

\* C2 as amended: with default thresholds a snapshot with the solid values,
\* at least 10 fields and a non-zero price passes the filter; it is in the
\* output exactly when its market cap is unknown or at least MIN_MARKET_CAP.
C2_SolidPassesFilter ==
    (SolidProcessed /\ info.kind = "ok" /\ ~IsNone(info.price) /\ Val(info.price) # 0)
        => /\ outcome \in {"smallcap", "accepted"}
           /\ InOutput <=> (IsNone(info.marketCap) \/ Val(info.marketCap) >= MIN_MARKET_CAP)

C2_Witness ==
    /\ SolidProcessed
    /\ IsNone(info.marketCap)
    /\ InOutput
    /\ info.earningsGrowth = Some(-90000)

\* C3: no candidate of the output has a known market cap below the minimum,
\* and a snapshot of unknown market cap is never stopped by the size floor.
C3_SizeFloor ==
    /\ \A k \in 1..Len(candidates) :
          IsNone(candidates[k].market_cap) \/ Val(candidates[k].market_cap) >= MIN_MARKET_CAP
    /\ \A k \in 1..Len(top_stocks) :
          IsNone(top_stocks[k].market_cap) \/ Val(top_stocks[k].market_cap) >= MIN_MARKET_CAP
    /\ (Tested /\ IsNone(info.marketCap) /\ PassesFilter(Locals(info), th)) => InOutput
    /\ IsNone(info.marketCap) => outcome # "smallcap"

\* A small cap that passed on the relaxed path only was stopped.
C3_Witness ==
    /\ outcome = "smallcap"
    /\ ~has_revenue_growth(Locals(info), th)
    /\ candidates = <<>>

\* C4: every score computed by score_and_rank_stocks lies in [0, 100].
C4_ScoreInRange ==
    \A k \in 1..Len(candidates) :
        ~IsNone(candidates[k].score)
            => (0 <= Val(candidates[k].score) /\ Val(candidates[k].score) <= 10000)

\* Position of input element j in the stable descending order.
RankOf(j) ==
    1 + Cardinality({m \in 1..Len(candidates) :
                        Val(candidates[m].score) > Val(candidates[j].score)})
      + Cardinality({m \in 1..(j - 1) :
                        Val(candidates[m].score) = Val(candidates[j].score)})

\* C5: the result is the first TOP_N elements of the input in descending
\* score order, equal scores in input order: at most TOP_N items,
\* non-increasing, the others absent.
C5_TopNStable ==
    pc = "done" =>
        /\ Len(top_stocks) <= TOP_N
        /\ Len(top_stocks) = Cardinality({j \in 1..Len(candidates) : RankOf(j) <= TOP_N})
        /\ \A j \in 1..Len(candidates) :
              RankOf(j) <= TOP_N => top_stocks[RankOf(j)] = candidates[j]
        /\ \A k \in 1..(Len(top_stocks) - 1) :
              Val(top_stocks[k].score) >= Val(top_stocks[k + 1].score)

\* Three candidates, the tie between the 2nd and 3rd of the order decides
\* which one is cut.
C5_Witness ==
    /\ pc = "done"
    /\ Len(candidates) > TOP_N
    /\ Len(top_stocks) = TOP_N
    /\ top_stocks[1] # candidates[1]
    /\ \E j \in 1..Len(candidates) :
          /\ RankOf(j) = TOP_N + 1
          /\ Val(candidates[j].score) = Val(top_stocks[TOP_N].score)

(***************************************************************************)
(* Properties of get_price_consensus.                                      *)
(***************************************************************************)
\* get_price_consensus has returned.
Returned_ == step = Len(Providers) + 2

\* The currencies of the accepted quotes, their counts and first positions.
QuotedCurrencies == {prices[k].c : k \in 1..Len(prices)}
CountOf(c) == Cardinality({k \in 1..Len(prices) : prices[k].c = c})
FirstOf(c) == CHOOSE k \in 1..Len(prices) :
                 /\ prices[k].c = c
                 /\ \A j \in 1..(k - 1) : prices[j].c # c

\* The currency with the most accepted quotes, the earliest seen on a tie.
SelectedCurrency ==
    CHOOSE c \in QuotedCurrencies :
        \A d \in QuotedCurrencies \ {c} :
            \/ CountOf(c) > CountOf(d)
            \/ (CountOf(c) = CountOf(d) /\ FirstOf(c) < FirstOf(d))

\* The quotes of the selected currency, and those the outlier filter keeps.
SelectedGroup == SelectSeq(prices, LAMBDA x : x.c = SelectedCurrency)
Survivors == Filtered(SelectedGroup)

\* (max - min) / max over g exceeds 5 %.
SpreadOver5(g) ==
    \E a \in 1..Len(g) : \E b \in 1..Len(g) :
        /\ \A j \in 1..Len(g) : g[b].p <= g[j].p /\ g[j].p <= g[a].p
        /\ 20 * (g[a].p - g[b].p) > g[a].p

\* The quote at position k returned as it is.
QuoteAt(k) == Returned(Exact(prices[k].p), prices[k].c, prices[k].s)

\* The first accepted quote whose source is one of `sources`.
FirstFrom(sources) ==
    CHOOSE k \in 1..Len(prices) :
        /\ prices[k].s \in sources
        /\ \A j \in 1..(k - 1) : prices[j].s \notin sources

\* With two or more accepted quotes: the quote of `primary` when the spread
\* of the survivors exceeds 5 % and such a quote was accepted, else the mean
\* of the survivors in the group's currency.
PrimaryOrMean(primary) ==
    (Returned_ /\ Len(prices) >= 2) =>
        IF SpreadOver5(Survivors) /\ (\E k \in 1..Len(prices) : prices[k].s \in primary)
        THEN result = QuoteAt(FirstFrom(primary))
        ELSE result = Returned(Mean(Survivors), SelectedCurrency, "Consensus")

\* C6 as stated: the primary provider being the first one queried, Yahoo
\* Finance, its quote is returned on a spread above 5 %, the mean in every
\* other case.
C6_PrimaryOrMean == PrimaryOrMean({"Yahoo Finance"})

\* C6 as amended: on a spread above 5 % the first accepted quote of Yahoo
\* Finance or Yahoo Finance API is returned, the mean in every other case.
C6_YahooOrMean == PrimaryOrMean(YahooSources)

\* Quotes {100, 101, 99} of one currency, Yahoo's among them: the mean 100.
C6_Witness ==
    /\ Returned_
    /\ Len(prices) = 3
    /\ prices[1].s = "Yahoo Finance"
    /\ {prices[k].p : k \in 1..3} = {99000, 100000, 101000}
    /\ QuotedCurrencies = {"USD"}
    /\ result = Returned([whole |-> 100000, rem |-> 0, den |-> 3], "USD", "Consensus")

\* Twice the median of the values of g (the mean of the two middle values
\* when g has an even size).
TwiceMedian(g) ==
    IF Len(g) % 2 = 1
    THEN 2 * KthSmallest(g, (Len(g) + 1) \div 2)
    ELSE KthSmallest(g, Len(g) \div 2) + KthSmallest(g, (Len(g) \div 2) + 1)

\* |p - median| > 50 % of the median, for m2 twice the median.
DeviatesOver50(p, m2) == Abs(2 * p - m2) > (m2 \div 2)

\* The quotes of g deviating from its median by 50 % or less.
WithinHalfOfMedian(g) ==
    SelectSeq(g, LAMBDA x : ~DeviatesOver50(x.p, TwiceMedian(g)))

\* C7: the mean returned for a group of several quotes is the mean of exactly
\* the quotes deviating from the group's median by 50 % or less.
C7_OutlierRule ==
    (/\ Returned_
     /\ Len(prices) >= 2
     /\ result.source = Some("Consensus")
     /\ Len(SelectedGroup) > 1
     /\ WithinHalfOfMedian(SelectedGroup) # <<>>)
        => result.price = Some(Mean(WithinHalfOfMedian(SelectedGroup)))

\* C8 as stated: every accepted quote lies strictly between the bounds.
C8_StrictBounds ==
    \A k \in 1..Len(prices) : MIN_PRICE < prices[k].p /\ prices[k].p < MAX_PRICE

\* C8 as amended: every accepted quote, and so every returned price, is
\* positive and lies between the bounds, the bounds included; the quote just
\* returned by a provider is among the accepted ones only if it does.
C8_InclusiveBounds ==
    /\ \A k \in 1..Len(prices) :
          0 < prices[k].p /\ MIN_PRICE <= prices[k].p /\ prices[k].p <= MAX_PRICE
    /\ ~IsNone(result.price) =>
          /\ MIN_PRICE <= Val(result.price).whole
          /\ 0 < Val(result.price).den
          /\ \/ Val(result.price).whole < MAX_PRICE
             \/ (Val(result.price).whole = MAX_PRICE /\ Val(result.price).rem = 0)

\* A quote on the lower bound was used, one above the upper bound was not.
C8_Witness ==
    /\ Returned_
    /\ quote.price = Some(MAX_PRICE + 1)
    /\ Len(prices) = 1
    /\ prices[1].p = MIN_PRICE
    /\ result = QuoteAt(1)

\* C9: with two or more accepted quotes the consensus is computed from the
\* quotes of the currency with the most accepted quotes, the earliest
\* accepted one on a tie.
C9_MostQuotedCurrency ==
    (Returned_ /\ Len(prices) >= 2) =>
        /\ main_currency(prices) = SelectedCurrency
        /\ result.source = Some("Consensus") =>
              /\ result.currency = Some(SelectedCurrency)
              /\ result.price = Some(Mean(Survivors))

\* Two currencies with as many quotes each: the one seen first is chosen
\* although it is not the one of the last quote.
C9_Witness ==
    /\ Returned_
    /\ Len(prices) = 2
    /\ prices[1].c # prices[2].c
    /\ result = Returned(Exact(prices[1].p), prices[1].c, "Consensus")

\* C10: not-found is returned exactly when no quote was accepted.
C10_NotFoundIffNoQuote ==
    /\ Returned_ =>
          /\ (result = NoQuote) <=> (prices = <<>>)
          /\ IsNone(result.price) <=> (prices = <<>>)
          /\ IsNone(result.price) <=> IsNone(result.currency)
          /\ IsNone(result.price) <=> IsNone(result.source)
    /\ Len(prices) = Cardinality({k \in 1..Len(sources_checked) :
                                     sources_checked[k] \notin ErrorLabels})

\* Every provider answered, none with a valid quote: not found.
C10_NotFoundWitness ==
    /\ Returned_
    /\ prices = <<>>
    /\ quote.price = Some(5)
    /\ result = NoQuote

\* The providers whose block get_price_consensus has executed for the symbol.
Queried ==
    {Providers[k] : k \in {j \in 1..Len(Providers) :
                              j < step /\ Applies(Providers[j], symbol)}}

\* The providers whose quote was accepted.
QuotedSources == {prices[k].s : k \in 1..Len(prices)}

\* The provider is recorded in the list of sources as unavailable.
RecordedUnavailable(name) ==
    \E k \in 1..Len(sources_checked) : sources_checked[k] = ErrorLabel(name)

\* C11: when get_price_consensus returns, every provider it queried that
\* gave no usable quote (raised, malformed answer, no quote) is recorded
\* in the list of sources as unavailable; the call returns in every case.
C11_FailuresRecorded ==
    Returned_ =>
        \A name \in Queried :
            name \notin QuotedSources => RecordedUnavailable(name)

(***************************************************************************)
(* Properties of the ticker universe.                                      *)
(***************************************************************************)
\* The fetch function just called, and what it returned.
FetchedSegment == Segments[seg - 1]
FetchedList == lists[seg - 1]

\* The remote retrieval of the fetch just made failed: network or parse
\* error, no usable column, or no ticker in the table.
RemoteFailed ==
    \/ remote.kind = "raise"
    \/ (remote.kind = "table" /\ ~remote.column)
    \/ (remote.kind = "table" /\ remote.rows = <<>>)

\* C12: every list a segment fetch function returns is non-empty, and it is
\* the segment's fallback list whenever the remote retrieval failed through
\* a network error, a parse error or an empty result.
C12_FallbackNeverEmpty ==
    /\ \A k \in 1..Len(lists) : lists[k] # <<>>
    /\ (seg \in 2..(Len(Segments) + 1) /\ RemoteFailed)
          => FetchedList = Fallback(FetchedSegment)

\* The identifiers that occur in at least one segment list.
Occurring == UNION {{lists[k][j] : j \in 1..Len(lists[k])} : k \in 1..Len(lists)}

\* The lists have been merged.
Aggregated == seg = Len(Segments) + 2

\* C13: the merged universe holds each identifier at most once and exactly
\* the identifiers of the segment lists, compared as exact strings; its size
\* is the number of distinct identifiers.
C13_UniverseDeduplicated ==
    Aggregated =>
        /\ \A a \in 1..Len(all_tickers) : \A b \in 1..Len(all_tickers) :
              a # b => all_tickers[a] # all_tickers[b]
        /\ {all_tickers[k] : k \in 1..Len(all_tickers)} = Occurring
        /\ Len(all_tickers) = Cardinality(Occurring)

\* AAPL occurs in several lists and twice in one of them, next to aapl:
\* both spellings are kept, each once.
C13_Witness ==
    /\ Aggregated
    /\ lists[1] = <<"AAPL", "aapl", "AAPL">>
    /\ lists[2] = <<"AAPL", "MSFT">>
    /\ Cardinality({k \in 1..Len(all_tickers) : all_tickers[k] = "AAPL"}) = 1
    /\ Cardinality({k \in 1..Len(all_tickers) : all_tickers[k] = "aapl"}) = 1
    /\ Len(all_tickers) < Len(Concat(lists))

(***************************************************************************)
(* Properties of get_technical_data and of the technical loop.             *)
(***************************************************************************)
\* A call of get_technical_data has been made; it returned a profile.
Called == tpos > 1
ProfileReturned == Called /\ ~IsNone(profile)

\* C14: a call that gets a price history of fewer than 200 daily
\* observations returns no profile, adds nothing to the analysed stocks, and
\* the loop goes on to the next stock.
C14_ShortHistoryNoProfile ==
    (Called /\ df.kind = "frame" /\ Rows(df.close) < 200) =>
        /\ IsNone(profile)
        /\ \A k \in 1..Len(stocks_with_tech) :
              stocks_with_tech[k].symbol # top_stocks[tpos - 1].symbol
        /\ pc \in {"technical", "report"}

\* 121 observations that change on the last day: only their number stops
\* the analysis.
C14_Witness ==
    /\ pc = "report"
    /\ df = Frame(<<Run(1000, 60), Run(2000, 60), Run(1500, 1)>>)
    /\ IsNone(profile)
    /\ stocks_with_tech = <<>>

\* x lies within 2 % of the SMA200 of the history, to the cent.
Within2PercentOfSma(x, h) ==
    /\ 100 * SMA_PERIOD * (x + 1) >= 98 * TailSum(h, SMA_PERIOD)
    /\ 100 * SMA_PERIOD * (x - 1) <= 102 * TailSum(h, SMA_PERIOD)

\* C15: every returned profile has buy_zone_low <= buy_zone_high, and when
\* its trend is bullish both bounds lie within 2 % of its SMA200.
C15_BuyZoneInvariant ==
    ProfileReturned =>
        /\ Val(profile).buy_zone_low <= Val(profile).buy_zone_high
        /\ Val(profile).trend = TREND_UP =>
              /\ Within2PercentOfSma(Val(profile).buy_zone_low, df.close)
              /\ Within2PercentOfSma(Val(profile).buy_zone_high, df.close)

\* The buy zone of the profile is [SMA200 x 0.98, SMA200 x 1.02].
ZoneAroundSma ==
    /\ Val(profile).buy_zone_low = RoundDiv(98 * TailSum(df.close, SMA_PERIOD), 100 * SMA_PERIOD)
    /\ Val(profile).buy_zone_high = RoundDiv(102 * TailSum(df.close, SMA_PERIOD), 100 * SMA_PERIOD)

\* The buy zone of the profile is [support_6m x 0.97, support_6m x 1.03].
ZoneAroundSupport ==
    /\ Val(profile).buy_zone_low = RoundDiv(97 * Val(profile).support_6m, 100)
    /\ Val(profile).buy_zone_high = RoundDiv(103 * Val(profile).support_6m, 100)

\* C16: in every returned profile the trend is bullish exactly when the buy
\* zone is the one around the SMA200, bearish exactly when it is the one
\* around the 6-month support.
C16_TrendMatchesZone ==
    ProfileReturned =>
        /\ (Val(profile).trend = TREND_UP) <=> ZoneAroundSma
        /\ (Val(profile).trend = TREND_DOWN) <=> ZoneAroundSupport

\* The last close of the history is above its SMA200.
LastCloseAboveSma ==
    SMA_PERIOD * Val(profile).current_price > TailSum(df.close, SMA_PERIOD)

\* fib is the retracement of `level` thousandths between the 52-week high and
\* low of the profile, to the cent.
IsRetracement(fib, level) ==
    LET high == Val(profile).resistance_52w
        low == Val(profile).support_52w
    IN  Abs(1000 * fib - (1000 * high - level * (high - low))) <= 500

\* C17: a returned profile carries Fibonacci levels only when the last close
\* is above the SMA200, each equal to high - (high - low) x level; at or below
\* the SMA200 every Fibonacci field is null.
C17_FibonacciOnlyBullish ==
    ProfileReturned =>
        IF LastCloseAboveSma
        THEN /\ ~IsNone(Val(profile).fib_382)
             /\ ~IsNone(Val(profile).fib_618)
             /\ IsRetracement(Val(Val(profile).fib_382), 382)
             /\ IsRetracement(Val(Val(profile).fib_618), 618)
        ELSE /\ IsNone(Val(profile).fib_382)
             /\ IsNone(Val(profile).fib_618)
             /\ IsNone(Val(profile).fib_382_eur)
             /\ IsNone(Val(profile).fib_618_eur)

\* High 20.00, low 10.00, last close 15.00 above the SMA200 of 13.025:
\* 16.18 and 13.82.
C17_Witness ==
    /\ ProfileReturned
    /\ df = Frame(<<Run(1000, 139), Run(2000, 60), Run(1500, 1)>>)
    /\ Val(profile).fib_382 = Some(1618)
    /\ Val(profile).fib_618 = Some(1382)

\* C18: during a run the FX rate is requested once, and every profile of the
\* run is converted with the same rate.
C18_FxFetchedOnce ==
    /\ fx_requests <= 1
    /\ \A a \in 1..Len(usd_to_eur) : \A b \in 1..Len(usd_to_eur) :
          usd_to_eur[a] = usd_to_eur[b]

(***************************************************************************)
(* Properties of screen_stocks: failures and configuration.                *)
(***************************************************************************)
\* C19: an iteration of screen_stocks that ends in an exception leaves the
\* candidates collected so far unchanged and the loop running; when the
\* function returns, the fundamentals of every ticker of tickers[:SCAN_LIMIT]
\* were requested, in order, and no ticker that raised last is in the output.
C19_ErrorIsolated ==
    /\ [][(i' = i + 1 /\ outcome' = "error")
             => (candidates' = candidates /\ pc' = "screen" /\ requested' = Append(requested, Scanned[i]))]_vars
    /\ [](pc \in {"score", "done"} => requested = Scanned)
    /\ [](outcome = "error" => ~InOutput)

\* A ticker raised after a candidate was collected and before the last
\* ticker of the batch.
C19_Witness ==
    /\ pc = "screen"
    /\ outcome = "error"
    /\ Len(candidates) = 1
    /\ i = 3
    /\ Len(Scanned) = 3

\* The PE band or the PEG band of the thresholds is empty.
InvalidConfig == th.min_pe_ratio >= th.max_pe_ratio \/ th.min_peg_ratio >= th.max_peg_ratio

\* C20: with invalid thresholds no fundamentals are requested and the run
\* does not get to collecting or scoring candidates.
C20_InvalidConfigFailsFast ==
    InvalidConfig =>
        /\ requested = <<>>
        /\ candidates = <<>>
        /\ pc = "screen"

(***************************************************************************)
(* Properties of the end of a run.                                         *)
(***************************************************************************)
RunOver == pc \in {"stopped", "end"}

\* No ticker survived the screening, the ranking or the technical analysis.
ZeroSurvivors ==
    \/ candidates = <<>>
    \/ top_stocks = <<>>
    \/ stocks_with_tech = <<>>

Told(m) == \E k \in 1..Len(messages) : messages[k] = m

ExplicitReason == Told(NO_OPPORTUNITY) \/ Told(NO_EMAIL)

ReportedSuccess == Told(ANALYSIS_SUCCESS) \/ ~IsNone(emailed)

StoredAsAnalysis == saved_analyses # <<>>

\* C21: a run in which zero tickers survive a stage ends with an empty
\* result and an explicit reason, and is neither reported (success message,
\* report e-mail) nor stored as a successful analysis.
C21_TotalFailureSurfaced ==
    (RunOver /\ ZeroSurvivors) =>
        /\ final_results = <<>>
        /\ ExplicitReason
        /\ ~ReportedSuccess
        /\ ~StoredAsAnalysis

(***************************************************************************)
(* Properties of the requests of a screening pass.                         *)
(***************************************************************************)
\* C22: a screening pass requests the fundamentals of at most SCAN_LIMIT
\* tickers, each of them at most once (a ticker that failed or was rejected
\* is not requested again), and of no ticker beyond the scan limit: the
\* requests are, in order, the first tickers of the list.
C22_RequestsBounded ==
    /\ Len(requested) <= SCAN_LIMIT
    /\ Len(requested) <= Len(tickers)
    /\ \A k \in 1..Len(requested) : requested[k] = tickers[k]
    /\ \A j, k \in 1..Len(requested) : j # k => requested[j] # requested[k]
    /\ pc # "screen" => Len(requested) = Min2(Len(tickers), SCAN_LIMIT)

\* A pass over a list longer than the scan limit is over, every scanned
\* ticker failed or was rejected.
C22_Witness ==
    /\ pc = "done"
    /\ Len(tickers) > SCAN_LIMIT
    /\ Len(requested) = SCAN_LIMIT
    /\ candidates = <<>>

\* C23: between the request for one ticker and the request for the next the
\* delay elapses, whatever the outcome of the first ticker: every request
\* that is followed by another one was followed by time.sleep.
C23_DelayBetweenRequests ==
    \A k \in 1..Len(requested) : k < Len(requested) => delays[k]

(***************************************************************************)
(* Properties of the currency conversion.                                  *)
(***************************************************************************)
\* The EURUSD=X fetch of the call just made raised or returned no data.
FxFailed ==
    /\ fx # <<>>
    /\ \E k \in 1..Len(fx) : fx[k].kind \in {"raise", "empty"}

\* The converted fields of the profile are the dollar fields times `rate`.
ConvertedWith(rate) ==
    LET p == Val(profile) IN
    /\ p.current_price_eur = usd_to_eur_price(Frac(p.current_price, 1), rate)
    /\ p.support_6m_eur = usd_to_eur_price(Frac(p.support_6m, 1), rate)
    /\ p.buy_zone_low_eur = usd_to_eur_price(buy_zone_low(df.close), rate)
    /\ p.buy_zone_high_eur = usd_to_eur_price(buy_zone_high(df.close), rate)
    /\ p.sma200_eur = usd_to_eur_price(Frac(SmaSum(df.close), SMA_PERIOD), rate)

\* C24: whenever the FX fetch fails, by raising or by returning no data,
\* the multiplier of the converted fields is the fallback rate 0.92.
C24_FallbackRate ==
    (~IsNone(profile) /\ FxFailed) =>
        /\ usd_to_eur[Len(usd_to_eur)] = DEFAULT_RATE
        /\ ConvertedWith(DEFAULT_RATE)

(***************************************************************************)
(* Frame properties of the scoring and of the technical analysis.          *)
(***************************************************************************)
\* C25: score_and_rank_stocks and get_technical_data (a call that returns
\* None included) leave the candidate records of `opportunities` as they
\* were: same fields, same values.
C25_CandidatesUnmodified ==
    [][(pc = "score" \/ pc = "technical") => candidates' = candidates]_vars

(***************************************************************************)
(* Properties of verify_user.                                              *)
(***************************************************************************)
\* C26: while the lock time of the account lies in the future, a call of
\* verify_user returns no user id, whatever the password, and clears
\* neither the lock nor the counter of failed attempts.
C26_LockEnforced ==
    [][(Locked /\ logins' = logins + 1) =>
          /\ login'.kind # "user_id"
          /\ ~IsNone(locked_until')
          /\ failed_login_attempts' >= failed_login_attempts]_vars

(***************************************************************************)
(* Properties of the value get_price_consensus returns.                    *)
(***************************************************************************)
\* The exact price q lies between the smallest and the largest price of g.
WithinRange(q, g) ==
    /\ MinP(g) <= q.whole
    /\ q.whole < MaxP(g) \/ (q.whole = MaxP(g) /\ q.rem = 0)

\* C27: a price returned for two or more accepted quotes is in the currency
\* of the selected (most quoted) group and lies between the smallest and
\* the largest of that group's surviving quotes.
C27_ConsensusWithinGroup ==
    (Returned_ /\ Len(prices) >= 2) =>
        /\ result.currency = Some(SelectedCurrency)
        /\ WithinRange(Val(result.price), Survivors)

(***************************************************************************)
(* Relational properties of the score and of the screener's decision.      *)
(***************************************************************************)
\* ROE and profit margin values (1e-2 percent) around the tiers of lines
\* 558-563.
RoeLevels == {0, 1100, 1200, 1500, 1600, 2000, 50000}
MarginLevels == {0, 800, 1000, 1500, 5000}

\* The records that differ from c by a ROE or a profit margin at least as
\* large, every other field being the same.
Raised(c) ==
    {[c EXCEPT !.roe = r, !.profit_margin = m] :
        r \in {x \in RoeLevels : x >= c.roe},
        m \in {x \in MarginLevels : x >= c.profit_margin}}

\* C28: the score never decreases when the ROE or the profit margin of a
\* candidate increases, its other fields staying the same.
C28_ScoreMonotone ==
    (pc = "done" /\ candidates # <<>>) =>
        \A c \in Raised(candidates[1]) : Score(c) >= Score(candidates[1])

\* Earnings growths a snapshot can report and values of min_earnings_growth
\* a caller can pass (1e-5).
EarningsLevels == {None, Some(-90000), Some(0), Some(12000), Some(25000)}
MinEarningsLevels == {0, 5000, MIN_EARNINGS_GROWTH, 50000}

Calls == SelectSeq(events, LAMBDA e : e.kind = "call")

RetryOver == retry_result # Running

\* C30: retry_with_backoff calls func at most max_retries times; every call
\* before the last one failed, and a successful call is the last event and
\* its value is returned; when max_retries calls were made and all failed,
\* the exception of the last call is raised; time.sleep runs only between
\* two calls: after a failed call, and never as the last event of a call
\* that is over.
C30_RetryContract ==
    /\ Len(Calls) <= max_retries
    /\ \A k \in 1..(Len(Calls) - 1) : Calls[k].answer.kind = "raise"
    /\ \A k \in 1..Len(events) :
          (events[k].kind = "call" /\ events[k].answer.kind = "return") =>
              /\ k = Len(events)
              /\ retry_result = [kind |-> "returned", value |-> events[k].answer.value]
    /\ (RetryOver /\ Calls # <<>> /\ Calls[Len(Calls)].answer.kind = "raise") =>
          /\ Len(Calls) = max_retries
          /\ retry_result = [kind |-> "raised", value |-> Calls[Len(Calls)].answer.value]
    /\ \A k \in 1..Len(events) :
          events[k].kind = "sleep" =>
              /\ k > 1
              /\ events[k - 1].kind = "call"
              /\ events[k - 1].answer.kind = "raise"
              /\ k = Len(events) => (~RetryOver /\ attempt < max_retries)
              /\ k < Len(events) => events[k + 1].kind = "call"

\* Three attempts were allowed and all three failed: the exception of the
\* third call is raised after two waits.
C30_Witness ==
    /\ max_retries = MaxRetries
    /\ Len(Calls) = MaxRetries
    /\ Len(events) = 2 * MaxRetries - 1
    /\ Calls[1].answer.value = "TimeoutError"
    /\ retry_result = [kind |-> "raised", value |-> "ConnectionError"]

====
